---- MODULE Spec2Model ----
(***************************************************************************)
(* Model of smartifier2 (src/src/smartifier2.cpp): the CSV codec, the      *)
(* translation table, the vertex and edge transformers, the vertex buffer  *)
(* and the edge-mode driver with its worker pool.                          *)
(*                                                                         *)
(* A std::string is a sequence of one-character strings.  Positions are    *)
(* 0-based as in the source; npos is -1.                                   *)
(***************************************************************************)
EXTENDS Integers, Sequences, FiniteSets, TLC

\* ------------------------------------------------------------------------
\* std::string helpers
\* ------------------------------------------------------------------------
npos == 0 - 1

Min(a, b) == IF a < b THEN a ELSE b

\* s[pos]
At(s, pos) == s[pos + 1]

\* s.find(c, from)
find(s, c, from) ==
  IF \E i \in from .. (Len(s) - 1) : At(s, i) = c
    THEN CHOOSE i \in from .. (Len(s) - 1) :
           /\ At(s, i) = c
           /\ \A j \in from .. (i - 1) : At(s, j) # c
    ELSE npos

\* s.substr(pos, n)
substr(s, pos, n) == SubSeq(s, pos + 1, Min(pos + n, Len(s)))

\* s.substr(pos)
substrFrom(s, pos) == SubSeq(s, pos + 1, Len(s))

\* number of occurrences of c in s (used by the properties only)
Count(s, c) == Cardinality({i \in 1 .. Len(s) : s[i] = c})

\* the fields of a written line: parts[0], then sep and parts[i]
RECURSIVE join(_, _)
join(parts, sep) ==
  IF Len(parts) = 0 THEN <<>>
  ELSE IF Len(parts) = 1 THEN parts[1]
  ELSE parts[1] \o <<sep>> \o join(Tail(parts), sep)

\* ------------------------------------------------------------------------
\* CSV codec
\* ------------------------------------------------------------------------
RECURSIVE splitLoop(_, _, _, _, _, _, _)
\* variant: the line is never cut
splitLoopWhole(line, sep, quo, start, pos, inQuote, res) == <<line>>

splitLoop(line, sep, quo, start, pos, inQuote, res) ==
  IF pos >= Len(line)
    THEN Append(res, substr(line, start, pos - start))
    ELSE IF ~inQuote
      THEN IF At(line, pos) = quo
             THEN splitLoop(line, sep, quo, start, pos + 1, TRUE, res)
             ELSE IF At(line, pos) = sep
               THEN splitLoop(line, sep, quo, pos + 1, pos + 1, FALSE,
                              Append(res, substr(line, start, pos - start)))
               ELSE splitLoop(line, sep, quo, start, pos + 1, FALSE, res)
      ELSE IF At(line, pos) = quo
             THEN IF pos + 1 < Len(line) /\ At(line, pos + 1) = quo
                    THEN splitLoop(line, sep, quo, start, pos + 2, TRUE, res)
                    ELSE splitLoop(line, sep, quo, start, pos + 1, FALSE, res)
             ELSE splitLoop(line, sep, quo, start, pos + 1, TRUE, res)

\* variant: no character opens a quoted region
splitPlain(line, sep, quo) == splitLoop(line, sep, "", 0, 0, FALSE, <<>>)

split(line, sep, quo) == splitLoop(line, sep, quo, 0, 0, FALSE, <<>>)

RECURSIVE unquoteLoop(_, _, _, _, _)
\* variant: everything after the first quote is returned as it stands
unquoteLoopRest(s, quo, pos, inQuote, res) == substrFrom(s, pos)

unquoteLoop(s, quo, pos, inQuote, res) ==
  IF pos >= Len(s) THEN res
  ELSE IF inQuote
    THEN IF At(s, pos) = quo
           THEN IF pos + 1 < Len(s) /\ At(s, pos + 1) = quo
                  THEN unquoteLoop(s, quo, pos + 2, TRUE, Append(res, quo))
                  ELSE unquoteLoop(s, quo, pos + 1, FALSE, res)
           ELSE unquoteLoop(s, quo, pos + 1, TRUE, Append(res, At(s, pos)))
    ELSE unquoteLoop(s, quo, pos + 1, At(s, pos) = quo, res)

unquote(s, quo) ==
  IF find(s, quo, 0) = npos THEN s
  ELSE unquoteLoop(s, quo, find(s, quo, 0) + 1, TRUE, <<>>)

RECURSIVE quoteLoop(_, _, _, _)
\* variant: the quotes inside are not doubled
quoteLoopEnclose(s, quo, pos, res) == res \o s \o <<quo>>

quoteLoop(s, quo, pos, res) ==
  IF pos >= Len(s) THEN Append(res, quo)
  ELSE IF At(s, pos) = quo
    THEN quoteLoop(s, quo, pos + 1, res \o <<quo, quo>>)
    ELSE quoteLoop(s, quo, pos + 1, Append(res, At(s, pos)))

\* variant: every field is enclosed in quote characters
quoteAlways(s, quo) == quoteLoop(s, quo, 0, <<quo>>)

quote(s, quo) ==
  IF find(s, quo, 0) = npos THEN s
  ELSE quoteLoop(s, quo, 0, <<quo>>)

\* findColPos: the position of header in colHeaders, or -1
findColPos(colHeaders, header) ==
  IF \E i \in 1 .. Len(colHeaders) : colHeaders[i] = header
    THEN (CHOOSE i \in 1 .. Len(colHeaders) :
            /\ colHeaders[i] = header
            /\ \A j \in 1 .. (i - 1) : colHeaders[j] # header) - 1
    ELSE 0 - 1

\* ------------------------------------------------------------------------
\* Digest.  calculateSha1 returns the lowercase hex SHA-1 of its input; here
\* a short lowercase-hex checksum of the characters stands for it (the
\* properties use only that the digest is a hex string fixed by the input).
\* ------------------------------------------------------------------------
HexDigits == <<"0", "1", "2", "3", "4", "5", "6", "7",
               "8", "9", "a", "b", "c", "d", "e", "f">>

CharCode(c) ==
  CASE c = "a" -> 1 [] c = "b" -> 2 [] c = "k" -> 3 [] c = "m" -> 4
    [] c = ":" -> 5 [] c = "/" -> 6 [] c = "," -> 7 [] c = "\"" -> 8
    [] c = "V" -> 9 [] c = "W" -> 10 [] c = "e" -> 11
    [] OTHER -> 12

RECURSIVE checksum(_, _)
checksum(s, acc) ==
  IF Len(s) = 0 THEN acc
  ELSE checksum(Tail(s), (acc * 7 + CharCode(Head(s)) + 3) % 256)

calculateSha1(input) ==
  LET h == checksum(input, 5)
  IN  <<HexDigits[(h \div 16) + 1], HexDigits[(h % 16) + 1]>>

\* ------------------------------------------------------------------------
\* Translation table
\* ------------------------------------------------------------------------
SizeofPair == 40
SizeofString == 32
MapOverhead == 32

EmptyMap == [x \in {} |-> 0]

\* Translation::clear, and the state of a default-constructed Translation
clear == [keyTab |-> EmptyMap, attTab |-> EmptyMap,
          smartAttributes |-> <<>>, memUsage |-> 0]

\* variant: pos taken as smartAttributes.size() after the emplace_back
internAttributeAtSize(trans, att) ==
  IF att \in DOMAIN trans.attTab THEN trans
  ELSE [trans EXCEPT
          !.smartAttributes = Append(@, att),
          !.attTab = @ @@ (att :> Len(trans.smartAttributes) + 1),
          !.memUsage = @ + SizeofPair + Len(att) + 1
                         + SizeofString + Len(att) + 1 + MapOverhead]

\* the attTab part of learnSmartKey: a new attribute is appended to
\* smartAttributes and attTab maps it to its position
internAttribute(trans, att) ==
  IF att \in DOMAIN trans.attTab THEN trans
  ELSE [trans EXCEPT
          !.smartAttributes = Append(@, att),
          !.attTab = @ @@ (att :> Len(trans.smartAttributes)),
          !.memUsage = @ + SizeofPair + Len(att) + 1
                         + SizeofString + Len(att) + 1 + MapOverhead]

\* variant: keyTab[uniq] = pos, replacing an entry already there
assignKey(trans, uniq, pos) ==
  [trans EXCEPT
     !.keyTab = [x \in DOMAIN @ \cup {uniq} |-> IF x = uniq THEN pos ELSE @[x]],
     !.memUsage = IF uniq \in DOMAIN trans.keyTab THEN @
                  ELSE @ + SizeofPair + Len(uniq) + 1 + MapOverhead]

\* the keyTab part of learnSmartKey: insert if absent
insertKey(trans, uniq, pos) ==
  IF uniq \in DOMAIN trans.keyTab THEN trans
  ELSE [trans EXCEPT
          !.keyTab = @ @@ (uniq :> pos),
          !.memUsage = @ + SizeofPair + Len(uniq) + 1 + MapOverhead]

learnSmartKey(trans, key, vertexCollName) ==
  LET splitPos == find(key, ":", 0)
  IN  IF splitPos = npos THEN trans
      ELSE
        LET att == substr(key, 0, splitPos)
            t1 == internAttribute(trans, att)
            uniq == vertexCollName \o <<"/">> \o substrFrom(key, splitPos + 1)
        IN  insertKey(t1, uniq, t1.attTab[att])

\* learnLineCSV: the key is the unquoted field at keyPos
learnLineCSV(trans, line, sep, quo, keyPos, vertexCollName) ==
  learnSmartKey(trans, unquote(At(split(line, sep, quo), keyPos), quo),
                vertexCollName)

\* ------------------------------------------------------------------------
\* Names the program looks for
\* ------------------------------------------------------------------------
KEY == <<"_", "k", "e", "y">>
FROM == <<"_", "f", "r", "o", "m">>
TO == <<"_", "t", "o">>

\* ------------------------------------------------------------------------
\* JSON value model (velocypack).  A record is a sequence of members
\* [name, val]; a value has a type t and, for the scalar types, its text s.
\* ------------------------------------------------------------------------
None == [t |-> "None", s |-> <<>>]
StrVal(s) == [t |-> "String", s |-> s]
IntVal(s) == [t |-> "Int", s |-> s]
Arr == [t |-> "Array", s |-> <<>>]

\* VPackSlice::get(name)
get(rec, name) ==
  IF \E i \in 1 .. Len(rec) : rec[i].name = name
    THEN rec[CHOOSE i \in 1 .. Len(rec) :
               /\ rec[i].name = name
               /\ \A j \in 1 .. (i - 1) : rec[j].name # name].val
    ELSE None

isString(v) == v.t = "String"

\* VPackSlice::toJson of a value: a string is written between quotes with
\* every quote and backslash escaped, any other scalar as its text.
RECURSIVE escapeJson(_)
escapeJson(s) ==
  IF Len(s) = 0 THEN <<>>
  ELSE (IF Head(s) \in {"\"", "\\"} THEN <<"\\", Head(s)>> ELSE <<Head(s)>>)
         \o escapeJson(Tail(s))

toJson(v) ==
  IF isString(v) THEN <<"\"">> \o escapeJson(v.s) \o <<"\"">>
  ELSE IF v.t = "None" THEN <<"n", "u", "l", "l">>
  ELSE IF v.t = "Array" THEN <<"[", "]">>
  ELSE v.s

\* learnLineJSONL: lines whose _key is no string are ignored
learnLineJSONL(trans, rec, vertexCollName) ==
  IF ~isString(get(rec, KEY)) THEN trans
  ELSE learnSmartKey(trans, get(rec, KEY).s, vertexCollName)

\* p.value.toJson() of a value read from a line, re-read by fromJson, is the
\* value again; a record member is kept as the pair it was parsed to.
Member(name, val) == [name |-> name, val |-> val, open |-> TRUE]

\* ------------------------------------------------------------------------
\* Vertex transformer, CSV
\* ------------------------------------------------------------------------
RECURSIVE padTo(_, _)
\* while (parts.size() < ncols) parts.emplace_back("")
padTo(parts, ncols) ==
  IF Len(parts) >= ncols THEN parts ELSE padTo(Append(parts, <<>>), ncols)

\* `pos >= ncols` with pos an int and ncols a size_t: pos is converted to
\* size_t, so a negative pos compares as a huge value.
geSizeT(pos, ncols) == pos < 0 \/ pos >= ncols

\* Result: ub (parts[keyPos] was accessed with keyPos = -1), the parts
\* written, and the locals att and key.
transformVertexCSV(line, sep, quo, ncols, smartAttrPos, smartValuePos, smartIndex, hashSmartValue, keyPos, keyValuePos) ==
  LET p1 == padTo(split(line, sep, quo), ncols)
      p2 == IF geSizeT(smartAttrPos, ncols) THEN Append(p1, <<>>) ELSE p1
      p3 == IF geSizeT(keyPos, ncols) THEN Append(p2, <<>>) ELSE p2
      v0 == unquote(At(p3, smartValuePos), quo)
      v1 == IF hashSmartValue THEN calculateSha1(v0) ELSE v0
      att == IF smartValuePos >= 0
               THEN (IF smartIndex > 0 THEN substr(v1, 0, smartIndex) ELSE v1)
               ELSE unquote(At(p3, smartAttrPos), quo)
      p4 == IF smartValuePos >= 0
              THEN [p3 EXCEPT ![smartAttrPos + 1] = quote(att, quo)]
              ELSE p3
      readsKeyPos == keyValuePos < 0
      key == IF keyValuePos >= 0 THEN unquote(At(p4, keyValuePos), quo)
             ELSE IF keyPos >= 0 THEN unquote(At(p4, keyPos), quo)
             ELSE <<>>
      splitPos == find(key, ":", 0)
      writesKeyPos == splitPos = npos \/ substr(key, 0, splitPos) # att
      newKey == IF splitPos = npos
                  THEN quote(att \o <<":">> \o key, quo)
                  ELSE quote(att \o <<":">> \o substrFrom(key, splitPos + 1), quo)
      ub == keyPos < 0 /\ (readsKeyPos \/ writesKeyPos)
      p5 == IF writesKeyPos /\ keyPos >= 0
              THEN [p4 EXCEPT ![keyPos + 1] = newKey]
              ELSE p4
  IN  [ub |-> ub, parts |-> p5, att |-> att, key |-> key]

\* renameColumns: "<nr>:<newname>" options, applied in order
RECURSIVE renameColumns(_, _)
renameColumns(renames, colHeaders) ==
  IF Len(renames) = 0 THEN colHeaders
  ELSE LET nr == Head(renames)[1]
           newname == Head(renames)[2]
       IN  renameColumns(Tail(renames),
             IF nr < Len(colHeaders) /\ Len(newname) > 0
               THEN [colHeaders EXCEPT ![nr + 1] = newname]
               ELSE colHeaders)

\* The CSV header part of doVertices: the column headers written and the
\* positions handed to transformVertexCSV.
vertexHeaderCSV(line, o) ==
  LET raw == split(line, o.sep, o.quo)
      ncols == Len(raw)
      h0 == renameColumns(o.renames, [i \in 1 .. ncols |-> unquote(raw[i], o.quo)])
      sPos == findColPos(h0, o.smartAttr)
      smartAttrPos == IF sPos < 0 THEN Len(h0) ELSE sPos
      h1 == IF sPos < 0 THEN Append(h0, o.smartAttr) ELSE h0
      smartValuePos == IF o.haveSmartValue THEN findColPos(h1, o.smartValue)
                       ELSE 0 - 1
      kPos == findColPos(h1, KEY)
      keyPos == IF kPos < 0 /\ o.writeKey THEN Len(h1) ELSE kPos
      h2 == IF kPos < 0 /\ o.writeKey THEN Append(h1, KEY) ELSE h1
      keyValuePos == IF Len(o.keyValue) > 0 THEN findColPos(h2, o.keyValue)
                     ELSE 0 - 1
  IN  [colHeaders |-> h2, ncols |-> ncols, smartAttrPos |-> smartAttrPos,
       smartValuePos |-> smartValuePos, keyPos |-> keyPos,
       keyValuePos |-> keyValuePos]

\* ------------------------------------------------------------------------
\* Vertex transformer, JSONL
\* ------------------------------------------------------------------------
smartToString(attSlice, smartDefault) ==
  IF isString(attSlice) THEN attSlice.s
  ELSE IF attSlice.t = "None"
    THEN (IF Len(smartDefault) > 0 THEN smartDefault ELSE <<>>)
    ELSE IF attSlice.t \in {"Bool", "Double", "UTCDate", "Int", "UInt", "SmallInt"}
      THEN attSlice.s
      ELSE <<>>

\* VPackParser::fromJson accepts a line iff it is JSON: a member whose name
\* lacks its opening quote makes the line unparsable.
parses(line) == \A i \in 1 .. Len(line) : line[i].open

\* the members after the special ones: every other field in input order
RECURSIVE otherMembers(_, _)
otherMembers(rec, skip) ==
  IF Len(rec) = 0 THEN <<>>
  ELSE IF Head(rec).name \in skip THEN otherMembers(Tail(rec), skip)
  ELSE <<Member(Head(rec).name, Head(rec).val)>> \o otherMembers(Tail(rec), skip)

\* the bytes of the members after the special ones: a comma, the name
\* between quotes, a colon and toJson of the value
RECURSIVE otherMembersText(_, _)
otherMembersText(rec, skip) ==
  IF Len(rec) = 0 THEN <<>>
  ELSE IF Head(rec).name \in skip THEN otherMembersText(Tail(rec), skip)
  ELSE <<",", "\"">> \o Head(rec).name \o <<"\"", ":">> \o toJson(Head(rec).val)
         \o otherMembersText(Tail(rec), skip)

\* the bytes of the line written: the new key and the attribute go out
\* between bare quotes, and the quote that opens the attribute name is part
\* of what is written for _key
vertexTextJSONL(s, smartAttr, keyWritten, newKey, att) ==
  <<"{">>
    \o (IF keyWritten
          THEN <<"\"">> \o KEY \o <<"\"", ":", "\"">> \o newKey \o <<"\"", ",", "\"">>
          ELSE <<>>)
    \o smartAttr \o <<"\"", ":", "\"">> \o att \o <<"\"">>
    \o otherMembersText(s, {KEY, smartAttr})
    \o <<"}">>

\* Result: the members of the written line and the locals att, key, newKey.
transformVertexJSONL(s, smartAttr, smartValue, smartIndex, hashSmartValue, smartDefault, writeKey, keyValue) ==
  LET a0 == smartToString(get(s, smartValue), smartDefault)
      a1 == IF hashSmartValue THEN calculateSha1(a0) ELSE a0
      a2 == IF Len(smartValue) > 0
              THEN (IF smartIndex > 0 THEN substr(a1, 0, smartIndex) ELSE a1)
              ELSE <<>>
      att == IF Len(a2) = 0 THEN smartToString(get(s, smartAttr), smartDefault)
             ELSE a2
      keySlice == IF Len(keyValue) > 0 THEN get(s, keyValue) ELSE get(s, KEY)
      key == keySlice.s
      splitPos == find(key, ":", 0)
      newKey == IF ~isString(keySlice) THEN <<>>
                ELSE IF splitPos # npos THEN key
                ELSE IF Len(att) > 0 THEN att \o <<":">> \o key
                ELSE key
      keyWritten == writeKey \/ Len(newKey) > 0
      line == (IF keyWritten THEN <<Member(KEY, StrVal(newKey))>> ELSE <<>>)
              \o <<[name |-> smartAttr, val |-> StrVal(att), open |-> keyWritten]>>
              \o otherMembers(s, {KEY, smartAttr})
  IN  [line |-> line, att |-> att, keyIsString |-> isString(keySlice),
       key |-> key, newKey |-> newKey, keyWritten |-> keyWritten,
       text |-> vertexTextJSONL(s, smartAttr, keyWritten, newKey, att)]

\* ------------------------------------------------------------------------
\* doVertices: a file is [ok, lines]; ok is whether it can be opened.  The
\* result is the code returned, the lines written to the output file and how
\* the run ended: "ok", "ub" (an access to parts[-1]) or "throw" (fromJson
\* threw on a line that is not JSON; nothing catches it).
\* ------------------------------------------------------------------------
\* the call of transformVertexCSV in the line loop of doVertices
vertexLineCSV(line, o, h) ==
  transformVertexCSV(line, o.sep, o.quo, h.ncols, h.smartAttrPos, h.smartValuePos,
                     IF o.haveSmartValue THEN o.smartIndex ELSE 0 - 1,
                     o.haveSmartValue /\ o.hashSmartValue, h.keyPos, h.keyValuePos)

\* the call of transformVertexJSONL in the line loop of doVertices
vertexLineJSONL(s, o) ==
  transformVertexJSONL(s, o.smartAttr,
                       IF o.haveSmartValue THEN o.smartValue ELSE <<>>,
                       IF o.haveSmartValue THEN o.smartIndex ELSE 0 - 1,
                       o.haveSmartValue /\ o.hashSmartValue,
                       o.smartDefault, o.writeKey, o.keyValue)

RECURSIVE vertexLinesCSV(_, _, _)
vertexLinesCSV(lines, o, h) ==
  IF Len(lines) = 0 THEN [end |-> "ok", out |-> <<>>]
  ELSE LET r == vertexLineCSV(Head(lines), o, h)
           rest == vertexLinesCSV(Tail(lines), o, h)
       IN  IF r.ub THEN [end |-> "ub", out |-> <<>>]
           ELSE [end |-> rest.end, out |-> <<join(r.parts, o.sep)>> \o rest.out]

RECURSIVE vertexLinesJSONL(_, _)
vertexLinesJSONL(lines, o) ==
  IF Len(lines) = 0 THEN [end |-> "ok", out |-> <<>>]
  ELSE IF ~parses(Head(lines)) THEN [end |-> "throw", out |-> <<>>]
  ELSE LET r == vertexLineJSONL(Head(lines), o)
           rest == vertexLinesJSONL(Tail(lines), o)
       IN  [end |-> rest.end, out |-> <<r.line>> \o rest.out]

\* the header line written: every column name through quote()
headerLineCSV(h, o) ==
  join([i \in 1 .. Len(h.colHeaders) |-> quote(h.colHeaders[i], o.quo)], o.sep)

\* what a run leaves: return code 0, the header line (CSV) and the lines of
\* the line loop
vertexOutput(hdr, r) == [rc |-> 0, end |-> r.end, out |-> hdr \o r.out]

\* doVertices once the CSV header is read: h is what vertexHeaderCSV found
vertexFileCSV(lines, o, h) ==
  vertexOutput(<<headerLineCSV(h, o)>>, vertexLinesCSV(Tail(lines), o, h))

doVertices(input, o) ==
  IF o.type = "CSV"
    THEN IF ~input.ok \/ Len(input.lines) = 0
           THEN [rc |-> 3, end |-> "ok", out |-> <<>>]
           ELSE vertexFileCSV(input.lines, o, vertexHeaderCSV(Head(input.lines), o))
    ELSE vertexOutput(<<>>, vertexLinesJSONL(IF input.ok THEN input.lines ELSE <<>>, o))

\* ------------------------------------------------------------------------
\* Edge transformer, CSV.  An EdgeCollection e is
\* [fileName, fromVertColl, toVertColl, columnRenames].
\* ------------------------------------------------------------------------
\* The translate lambda of transformEdgesCSV.  Result: the parts after the
\* call, the attribute returned, and found (the endpoint looked at, with the
\* default collection prepended when it had no slash).
\* variant: the attribute of the first table entry, whatever was found
smartAttributeFirst(translation, found) == At(translation.smartAttributes, 0)

\* translation.smartAttributes[it->second], it = keyTab.find(found)
smartAttributeOf(translation, found) ==
  At(translation.smartAttributes, translation.keyTab[found])

translateCSV(parts, pos, vertexCollDefault, translation, smartIndex, quo) ==
  LET f0 == unquote(At(parts, pos), quo)
      sp0 == find(f0, "/", 0)
      found == IF sp0 = npos THEN vertexCollDefault \o <<"/">> \o f0 ELSE f0
      p1 == IF sp0 = npos THEN [parts EXCEPT ![pos + 1] = quote(found, quo)]
            ELSE parts
      slashpos == IF sp0 = npos THEN Len(vertexCollDefault) ELSE sp0
      colPos == find(found, ":", slashpos + 1)
  IN  IF colPos # npos
        THEN \* already transformed
             [parts |-> p1, found |-> found,
              att |-> substr(found, slashpos + 1, colPos - slashpos - 1)]
      ELSE IF smartIndex > 0
        THEN LET att == substr(found, slashpos + 1, smartIndex)
             IN  [parts |-> [p1 EXCEPT ![pos + 1] =
                               quote(substr(found, 0, slashpos + 1) \o att
                                       \o <<":">> \o substrFrom(found, slashpos + 1),
                                     quo)],
                  found |-> found, att |-> att]
      ELSE IF found \notin DOMAIN translation.keyTab
        THEN [parts |-> p1, found |-> found, att |-> <<>>]
      ELSE LET att == smartAttributeOf(translation, found)
           IN  [parts |-> [p1 EXCEPT ![pos + 1] =
                             quote(substr(found, 0, slashpos + 1) \o att
                                     \o <<":">> \o substrFrom(found, slashpos + 1),
                                   quo)],
                found |-> found, att |-> att]

\* variant: without the test for a colon in the key
rewritesKeyAlways(keyPos, fromAttr, toAttr, found) ==
  keyPos >= 0 /\ Len(fromAttr) > 0 /\ Len(toAttr) > 0

\* the conditions under which the line loop rewrites parts[keyPos]
rewritesKey(keyPos, fromAttr, toAttr, found) ==
  /\ keyPos >= 0
  /\ Len(fromAttr) > 0
  /\ Len(toAttr) > 0
  /\ find(found, ":", 0) = npos

\* One pass of the line loop of transformEdgesCSV.
edgeLineCSV(line, sep, quo, ncols, keyPos, fromPos, toPos, e, translation, smartIndex) ==
  LET p0 == padTo(split(line, sep, quo), ncols)
      f == translateCSV(p0, fromPos, e.fromVertColl, translation, smartIndex, quo)
      t == translateCSV(f.parts, toPos, e.toVertColl, translation, smartIndex, quo)
      found == unquote(At(t.parts, keyPos), quo)
      rewrite == rewritesKey(keyPos, f.att, t.att, found)
      p3 == IF rewrite
              THEN [t.parts EXCEPT ![keyPos + 1] =
                      quote(f.att \o <<":">> \o found \o <<":">> \o t.att, quo)]
              ELSE t.parts
  IN  [parts |-> p3, fromAttr |-> f.att, toAttr |-> t.att,
       fromFound |-> f.found, toFound |-> t.found]

\* for (auto const &p : e.columnRenames) ...
RECURSIVE edgeRenames(_, _)
edgeRenames(columnRenames, colHeaders) ==
  IF Len(columnRenames) = 0 THEN colHeaders
  ELSE LET p == Head(columnRenames)
       IN  edgeRenames(Tail(columnRenames),
             IF p[1] >= 0 /\ p[1] < Len(colHeaders)
               THEN [colHeaders EXCEPT ![p[1] + 1] = p[2]]
               ELSE colHeaders)

\* The header part of transformEdgesCSV.
edgeHeaderCSV(line, e, sep, quo) ==
  LET raw == split(line, sep, quo)
      h == edgeRenames(e.columnRenames,
                       [i \in 1 .. Len(raw) |-> unquote(raw[i], quo)])
  IN  [colHeaders |-> h, ncols |-> Len(raw),
       keyPos |-> findColPos(h, KEY), fromPos |-> findColPos(h, FROM),
       toPos |-> findColPos(h, TO)]

RECURSIVE edgeLinesCSV(_, _, _, _, _, _, _)
edgeLinesCSV(lines, sep, quo, h, e, translation, smartIndex) ==
  IF Len(lines) = 0 THEN <<>>
  ELSE <<join(edgeLineCSV(Head(lines), sep, quo, h.ncols, h.keyPos, h.fromPos,
                          h.toPos, e, translation, smartIndex).parts, sep)>>
       \o edgeLinesCSV(Tail(lines), sep, quo, h, e, translation, smartIndex)

\* transformEdgesCSV on the file at e.fileName.  Result: the code returned,
\* the lines written to <fileName>.out, whether .out was renamed over the
\* file, and how the call ended.
transformEdgesCSV(file, translation, e, sep, quo, smartIndex) ==
  IF ~file.ok \/ Len(file.lines) = 0
    THEN [rc |-> 1, out |-> <<>>, renamed |-> FALSE, end |-> "ok"]
    ELSE LET h == edgeHeaderCSV(Head(file.lines), e, sep, quo)
             hdr == join([i \in 1 .. Len(h.colHeaders) |->
                            quote(h.colHeaders[i], quo)], sep)
         IN  IF h.fromPos < 0 \/ h.toPos < 0
               THEN [rc |-> 2, out |-> <<hdr>>, renamed |-> FALSE, end |-> "ok"]
               ELSE [rc |-> 0,
                     out |-> <<hdr>> \o edgeLinesCSV(Tail(file.lines), sep, quo,
                                                     h, e, translation, smartIndex),
                     renamed |-> TRUE, end |-> "ok"]

\* ------------------------------------------------------------------------
\* Edge transformer, JSONL
\* ------------------------------------------------------------------------
\* variant: the value is taken as it was read
translateJSONLAsRead(s, name, vertexCollDefault, translation, smartIndex) ==
  [foundFlag |-> isString(get(s, name)), newValue |-> get(s, name).s,
   found |-> get(s, name).s, att |-> <<>>]

\* The translate lambda of transformEdgesJSONL.
translateJSONL(s, name, vertexCollDefault, translation, smartIndex) ==
  LET foundSlice == get(s, name)
      v0 == foundSlice.s
      sp0 == find(v0, "/", 0)
      found == IF sp0 = npos THEN vertexCollDefault \o <<"/">> \o v0 ELSE v0
      slashpos == IF sp0 = npos THEN Len(vertexCollDefault) ELSE sp0
      colPos == find(found, ":", slashpos + 1)
  IN  IF ~isString(foundSlice)
        THEN [foundFlag |-> FALSE, newValue |-> <<>>, found |-> <<>>, att |-> <<>>]
      ELSE IF colPos # npos
        THEN [foundFlag |-> TRUE, newValue |-> found, found |-> found,
              att |-> substr(found, slashpos + 1, colPos - slashpos - 1)]
      ELSE IF smartIndex > 0
        THEN LET att == substr(found, slashpos + 1, smartIndex)
             IN  [foundFlag |-> TRUE,
                  newValue |-> substr(found, 0, slashpos + 1) \o att \o <<":">>
                                 \o substrFrom(found, slashpos + 1),
                  found |-> found, att |-> att]
      ELSE IF found \notin DOMAIN translation.keyTab
        THEN [foundFlag |-> TRUE, newValue |-> found, found |-> found,
              att |-> <<>>]
      ELSE LET att == smartAttributeOf(translation, found)
           IN  [foundFlag |-> TRUE,
                newValue |-> substr(found, 0, slashpos + 1) \o att \o <<":">>
                               \o substrFrom(found, slashpos + 1),
                found |-> found, att |-> att]

\* the bytes the output lambda writes after the name and the colon: the new
\* value between two quote characters, unescaped, or toJson of the original
\* value when the new value is empty
outputTextJSONL(s, found, name, newVal) ==
  IF ~found THEN <<>>
  ELSE IF Len(newVal) > 0 THEN <<"\"">> \o newVal \o <<"\"">>
  ELSE toJson(get(s, name))

\* the output lambda: nothing when the field was not found, else the new
\* value as a string, or the original value when the new value is empty
outputJSONL(s, found, name, newVal) ==
  IF ~found THEN <<>>
  ELSE IF Len(newVal) > 0 THEN <<Member(name, StrVal(newVal))>>
  ELSE <<Member(name, get(s, name))>>

\* One pass of the line loop of transformEdgesJSONL.
edgeLineJSONL(s, e, translation, smartIndex) ==
  LET f == translateJSONL(s, FROM, e.fromVertColl, translation, smartIndex)
      t == translateJSONL(s, TO, e.toVertColl, translation, smartIndex)
      keySlice == get(s, KEY)
      foundKey == Len(f.att) > 0 /\ Len(t.att) > 0 /\ isString(keySlice)
      newKey == IF foundKey /\ find(keySlice.s, ":", 0) = npos
                  THEN f.att \o <<":">> \o keySlice.s \o <<":">> \o t.att
                  ELSE <<>>
  IN  [line |-> outputJSONL(s, foundKey, KEY, newKey)
                  \o outputJSONL(s, f.foundFlag, FROM, f.newValue)
                  \o outputJSONL(s, t.foundFlag, TO, t.newValue)
                  \o otherMembers(s, {KEY, FROM, TO}),
       fromAttr |-> f.att, toAttr |-> t.att,
       fromFound |-> f.found, toFound |-> t.found,
       fromText |-> outputTextJSONL(s, f.foundFlag, FROM, f.newValue),
       toText |-> outputTextJSONL(s, t.foundFlag, TO, t.newValue)]

RECURSIVE edgeLinesJSONL(_, _, _, _)
edgeLinesJSONL(lines, e, translation, smartIndex) ==
  IF Len(lines) = 0 THEN [end |-> "ok", out |-> <<>>]
  ELSE IF ~parses(Head(lines)) THEN [end |-> "throw", out |-> <<>>]
  ELSE LET rest == edgeLinesJSONL(Tail(lines), e, translation, smartIndex)
       IN  [end |-> rest.end,
            out |-> <<edgeLineJSONL(Head(lines), e, translation, smartIndex).line>>
                      \o rest.out]

\* transformEdgesJSONL on the file at e.fileName: a file that cannot be
\* opened reads as no lines.
transformEdgesJSONL(file, translation, e, smartIndex) ==
  LET r == edgeLinesJSONL(IF file.ok THEN file.lines ELSE <<>>, e, translation,
                          smartIndex)
  IN  [rc |-> 0, out |-> r.out, renamed |-> r.end = "ok", end |-> r.end]

\* ------------------------------------------------------------------------
\* Vertex buffer.  vb is [filePos, fileOpen, linePos, keyPos]: linePos is the
\* number of lines already read from the open input.  vfiles[i] is
\* [coll, ok, lines], the i-th --vertices pair and the file's content.
\* ------------------------------------------------------------------------
VertexBufferInit == [filePos |-> 0, fileOpen |-> FALSE, linePos |-> 0, keyPos |-> 0]

\* variant: the last vertex file is taken as read once it has been reached
isDoneAtLastFile(vb, vfiles) == vb.filePos + 1 >= Len(vfiles)

isDone(vb, vfiles) == vb.filePos >= Len(vfiles)

\* the key of a vertex line as learnLineCSV / learnLineJSONL read it
lineKeyCSV(line, sep, quo, keyPos) == unquote(At(split(line, sep, quo), keyPos), quo)

\* The loop of readMore.  Result: the code returned, how the call ended ("ub"
\* when a line is indexed outside its parts, "throw" when fromJson threw),
\* the table, the buffer and the lines learned by this call as pairs
\* <<collection name, line>>.
RECURSIVE readMoreLoop(_, _, _, _, _, _, _, _)
readMoreLoop(trans, vb, read, vfiles, memLimit, type, sep, quo) ==
  IF vb.filePos >= Len(vfiles) \/ trans.memUsage >= memLimit
    THEN [rc |-> 0, end |-> "ok", trans |-> trans, vb |-> vb, read |-> read]
  ELSE
    LET f == vfiles[vb.filePos + 1]
        opening == ~vb.fileOpen
        hdr == [i \in 1 .. Len(split(f.lines[1], sep, quo)) |->
                  unquote(split(f.lines[1], sep, quo)[i], quo)]
        vb1 == IF ~opening THEN vb
               ELSE IF type = "CSV"
                 THEN [vb EXCEPT !.fileOpen = TRUE, !.linePos = 1,
                                 !.keyPos = findColPos(hdr, KEY)]
                 ELSE [vb EXCEPT !.fileOpen = TRUE, !.linePos = 0]
    IN  IF opening /\ ~f.ok
          THEN [rc |-> 1, end |-> "ok", trans |-> trans, vb |-> vb, read |-> read]
        ELSE IF opening /\ type = "CSV" /\ Len(f.lines) = 0
          THEN [rc |-> 2, end |-> "ok", trans |-> trans,
                vb |-> [vb EXCEPT !.fileOpen = TRUE], read |-> read]
        ELSE IF opening /\ type = "CSV" /\ vb1.keyPos < 0
          THEN [rc |-> 3, end |-> "ok", trans |-> trans, vb |-> vb1, read |-> read]
        ELSE IF vb1.linePos >= Len(f.lines)
          THEN readMoreLoop(trans,
                            [vb1 EXCEPT !.filePos = @ + 1, !.fileOpen = FALSE,
                                       !.linePos = 0],
                            read, vfiles, memLimit, type, sep, quo)
        ELSE
          LET line == f.lines[vb1.linePos + 1]
              vb2 == [vb1 EXCEPT !.linePos = @ + 1]
          IN  IF type = "CSV"
                THEN IF vb1.keyPos < 0 \/ vb1.keyPos >= Len(split(line, sep, quo))
                       THEN [rc |-> 0, end |-> "ub", trans |-> trans, vb |-> vb2, read |-> read]
                       ELSE readMoreLoop(
                              learnLineCSV(trans, line, sep, quo, vb1.keyPos, f.coll),
                              vb2, Append(read, <<f.coll, line>>),
                              vfiles, memLimit, type, sep, quo)
                ELSE IF ~parses(line)
                       THEN [rc |-> 0, end |-> "throw", trans |-> trans, vb |-> vb2, read |-> read]
                       ELSE readMoreLoop(
                              learnLineJSONL(trans, line, f.coll),
                              vb2, Append(read, <<f.coll, line>>),
                              vfiles, memLimit, type, sep, quo)

\* readMore(memLimit): _trans.clear(), then the loop
readMore(vb, vfiles, memLimit, type, sep, quo) ==
  readMoreLoop(clear, vb, <<>>, vfiles, memLimit, type, sep, quo)

\* ------------------------------------------------------------------------
\* Edge mode: doEdges and its workers
\* ------------------------------------------------------------------------
VARIABLES
  opt,      \* the options: type, memory, smartIndex, nrThreads, sep, quo
  vfiles,   \* the --vertices files
  edges,    \* edgeCollections, from the --edges descriptors
  fs,       \* the edge files on disk, by file name
  fs0,      \* the edge files as they were when the run started
  trans,    \* vertexBuffer._trans
  vb,       \* the other fields of vertexBuffer
  read,     \* the last readMore call: its result and the lines it learned
  pc,       \* where doEdges is
  rc,       \* the code doEdges returned
  queue,    \* the work queue of the current pass
  error,    \* the error flag of the current pass
  wpc,      \* where each worker of the current pass is
  job,      \* the EdgeCollection each worker holds
  pass,     \* number of passes joined so far (capped)
  done,     \* the edge transforms run in this pass: descriptor e, result
            \* rc, and whether the output stream was closed in good state
  call,     \* the arguments of the function applied (function harnesses)
  ret       \* its results so far

dvars == <<opt, vfiles, edges, fs, fs0, trans, vb, read, pc, rc, queue,
           error, wpc, job, pass, done>>
hvars == <<call, ret>>
vars == <<opt, vfiles, edges, fs, fs0, trans, vb, read, pc, rc, queue,
          error, wpc, job, pass, done, call, ret>>

\* bytes per unit of --memory (1024 * 1024 in the source, scaled down so that
\* a handful of vertex lines fills a batch)
MemUnit == 128
\* largest --threads value
MaxThreads == 2
\* pass counter cap
MaxPass == 3

memLimit == opt.memory * MemUnit

Workers == 1 .. opt.nrThreads

\* doEdges up to the main loop: the option checks
Start ==
  /\ pc = "start"
  /\ IF Len(vfiles) = 0 /\ opt.smartIndex <= 0
       THEN pc' = "done" /\ rc' = 1
       ELSE IF Len(edges) = 0
         THEN pc' = "done" /\ rc' = 3
         ELSE pc' = "readMore" /\ rc' = rc
  /\ UNCHANGED <<opt, vfiles, edges, fs, fs0, trans, vb, read, queue, error,
                 wpc, job, pass, done, call, ret>>

\* vertexBuffer.readMore(memLimit) (its result is not looked at), the queue
\* filled with every edge collection, and the workers started
DoReadMore ==
  /\ pc = "readMore"
  /\ \E r \in {readMore(vb, vfiles, memLimit, opt.type, opt.sep, opt.quo)} :
       /\ trans' = r.trans
       /\ vb' = r.vb
       /\ read' = [rc |-> r.rc, end |-> r.end, lines |-> r.read]
       /\ IF r.end # "ok"
            THEN /\ pc' = r.end
                 /\ UNCHANGED <<queue, error, wpc>>
            ELSE /\ pc' = "join"
                 /\ queue' = edges
                 /\ error' = 0
                 /\ wpc' = [w \in Workers |-> "pop"]
  /\ done' = <<>>
  /\ UNCHANGED <<opt, vfiles, edges, fs, fs0, rc, job, pass, call, ret>>

\* variant: the worker takes the front descriptor and leaves it in the queue
WorkerPeek(w) ==
  /\ pc = "join"
  /\ wpc[w] = "pop"
  /\ Len(queue) > 0
  /\ job' = [job EXCEPT ![w] = queue[1]]
  /\ wpc' = [wpc EXCEPT ![w] = "work"]
  /\ UNCHANGED <<opt, vfiles, edges, fs, fs0, trans, vb, read, pc, rc, queue,
                 error, pass, done, call, ret>>

\* the locked block of the worker, queue not empty
WorkerPop(w) ==
  /\ pc = "join"
  /\ wpc[w] = "pop"
  /\ Len(queue) > 0
  /\ job' = [job EXCEPT ![w] = queue[1]]
  /\ queue' = Tail(queue)
  /\ wpc' = [wpc EXCEPT ![w] = "work"]
  /\ UNCHANGED <<opt, vfiles, edges, fs, fs0, trans, vb, read, pc, rc, error,
                 pass, done, call, ret>>

\* variant: the worker leaves its loop whatever the queue holds
WorkerExitAtOnce(w) ==
  /\ pc = "join"
  /\ wpc[w] = "pop"
  /\ wpc' = [wpc EXCEPT ![w] = "exit"]
  /\ UNCHANGED <<opt, vfiles, edges, fs, fs0, trans, vb, read, pc, rc, queue,
                 error, job, pass, done, call, ret>>

\* the locked block of the worker, queue empty: the worker leaves its loop
WorkerExit(w) ==
  /\ pc = "join"
  /\ wpc[w] = "pop"
  /\ Len(queue) = 0
  /\ wpc' = [wpc EXCEPT ![w] = "exit"]
  /\ UNCHANGED <<opt, vfiles, edges, fs, fs0, trans, vb, read, pc, rc, queue,
                 error, job, pass, done, call, ret>>

\* the edge transform of the file the worker holds
transformEdges(file, e) ==
  IF opt.type = "CSV"
    THEN transformEdgesCSV(file, trans, e, opt.sep, opt.quo, opt.smartIndex)
    ELSE transformEdgesJSONL(file, trans, e, opt.smartIndex)

\* variant: the file is renamed also when the output stream is not good
closeEdgesRenamed(r, closeGood, code) ==
  [rc |-> IF r.end = "ok" /\ r.rc = 0 /\ ~closeGood THEN code ELSE r.rc,
   out |-> r.out, renamed |-> r.renamed, end |-> r.end,
   closed |-> r.end = "ok" /\ r.rc = 0 /\ closeGood]

\* the end of the edge transform: when the output stream is not good after
\* close(), the file is not renamed and the transform returns 4 (CSV) or 1
\* (JSONL); closed: close() was reached and left the stream good
closeEdges(r, closeGood, code) ==
  IF r.end = "ok" /\ r.rc = 0 /\ ~closeGood
    THEN [rc |-> code, out |-> r.out, renamed |-> FALSE, end |-> r.end,
          closed |-> FALSE]
    ELSE [rc |-> r.rc, out |-> r.out, renamed |-> r.renamed, end |-> r.end,
          closed |-> r.end = "ok" /\ r.rc = 0]

transformEdgesClose(file, e, closeGood) ==
  closeEdges(transformEdges(file, e), closeGood, IF opt.type = "CSV" THEN 4 ELSE 1)

\* variant: the lookup is keyTab[found], which enters a key that is not there
WorkerTransformEntering(w, closeGood) ==
  /\ pc = "join"
  /\ wpc[w] = "work"
  /\ \E r \in {transformEdgesClose(fs[job[w].fileName], job[w], closeGood)} :
       /\ fs' = IF r.renamed
                  THEN [fs EXCEPT ![job[w].fileName] = [ok |-> TRUE, lines |-> r.out]]
                  ELSE fs
       /\ error' = IF r.rc # 0 THEN (IF opt.type = "CSV" THEN 6 ELSE 7)
                   ELSE error
       /\ pc' = IF r.end = "ok" THEN pc ELSE r.end
       /\ done' = Append(done, [e |-> job[w], rc |-> r.rc, closed |-> r.closed])
  /\ trans' = [trans EXCEPT !.keyTab = (<<"?">> :> 0) @@ @]
  /\ wpc' = [wpc EXCEPT ![w] = "pop"]
  /\ UNCHANGED <<opt, vfiles, edges, fs0, vb, read, rc, queue, job,
                 pass, call, ret>>

\* the transform call of the worker; closeGood: whether the output stream is
\* good after close()
WorkerTransformWith(w, closeGood) ==
  /\ pc = "join"
  /\ wpc[w] = "work"
  /\ \E r \in {transformEdgesClose(fs[job[w].fileName], job[w], closeGood)} :
       /\ fs' = IF r.renamed
                  THEN [fs EXCEPT ![job[w].fileName] = [ok |-> TRUE, lines |-> r.out]]
                  ELSE fs
       /\ error' = IF r.rc # 0 THEN (IF opt.type = "CSV" THEN 6 ELSE 7)
                   ELSE error
       /\ pc' = IF r.end = "ok" THEN pc ELSE r.end
       /\ done' = Append(done, [e |-> job[w], rc |-> r.rc, closed |-> r.closed])
  /\ wpc' = [wpc EXCEPT ![w] = "pop"]
  /\ UNCHANGED <<opt, vfiles, edges, fs0, trans, vb, read, rc, queue, job,
                 pass, call, ret>>

\* the transform call of the worker on a disk that takes every write
WorkerTransform(w) == WorkerTransformWith(w, TRUE)

\* variant: the error flag is not looked at after the join
JoinWithoutError ==
  /\ pc = "join"
  /\ \A w \in Workers : wpc[w] = "exit"
  /\ pass' = Min(pass + 1, MaxPass)
  /\ IF isDone(vb, vfiles)
       THEN pc' = "done" /\ rc' = 0
       ELSE pc' = "readMore" /\ rc' = rc
  /\ UNCHANGED <<opt, vfiles, edges, fs, fs0, trans, vb, read, queue, error,
                 wpc, job, done, call, ret>>

\* all workers joined: return the error, or loop while the buffer is not done
Join ==
  /\ pc = "join"
  /\ \A w \in Workers : wpc[w] = "exit"
  /\ pass' = Min(pass + 1, MaxPass)
  /\ IF error # 0
       THEN pc' = "done" /\ rc' = error
       ELSE IF isDone(vb, vfiles)
         THEN pc' = "done" /\ rc' = 0
         ELSE pc' = "readMore" /\ rc' = rc
  /\ UNCHANGED <<opt, vfiles, edges, fs, fs0, trans, vb, read, queue, error,
                 wpc, job, done, call, ret>>

Next ==
  \/ Start
  \/ DoReadMore
  \/ \E w \in Workers : WorkerPop(w)
  \/ \E w \in Workers : WorkerExit(w)
  \/ \E w \in Workers : WorkerTransform(w)
  \/ Join

\* ------------------------------------------------------------------------
\* Inputs.  Options as parseCommandLineArgs delivers them (separator and
\* quote character at their defaults), and small vertex and edge files.
\* ------------------------------------------------------------------------
Sep == ","
Quo == "\""

\* a CSV field as a CSV writer emits it: enclosed in quotes, with the quotes
\* inside doubled, when it holds a separator or a quote
csvField(s) ==
  IF \E i \in 1 .. Len(s) : s[i] \in {Sep, Quo}
    THEN quoteLoop(s, Quo, 0, <<Quo>>)
    ELSE s

csvLine(fields) == join([i \in 1 .. Len(fields) |-> csvField(fields[i])], Sep)

NameN == <<"n">>
ValX == <<"x">>

\* a vertex file of the given type holding the given keys, with a second
\* column / attribute n
vertexFile(type, coll, ok, keys) ==
  [coll |-> coll, ok |-> ok,
   lines |-> IF type = "CSV"
               THEN <<csvLine(<<KEY, NameN>>)>>
                    \o [i \in 1 .. Len(keys) |-> csvLine(<<keys[i], ValX>>)]
               ELSE [i \in 1 .. Len(keys) |->
                       <<Member(KEY, StrVal(keys[i])), Member(NameN, StrVal(ValX))>>]]

\* an edge file of the given type: rows are <<_key, _from, _to>>
edgeFile(type, rows) ==
  [ok |-> TRUE,
   lines |-> IF type = "CSV"
               THEN <<csvLine(<<KEY, FROM, TO>>)>>
                    \o [i \in 1 .. Len(rows) |-> csvLine(rows[i])]
               ELSE [i \in 1 .. Len(rows) |->
                       <<Member(KEY, StrVal(rows[i][1])),
                         Member(FROM, StrVal(rows[i][2])),
                         Member(TO, StrVal(rows[i][3]))>>]]

V == <<"V">>
W == <<"W">>

\* the --vertices lists tried: keys a:k, b:m, b:k, k (not smart), a:k,m
VertexKeySets ==
  { <<>>,
    << <<V, TRUE, << <<"a", ":", "k">>, <<"b", ":", "m">> >> >> >>,
    << <<V, TRUE, << <<"a", ":", "k">> >> >>,
       <<W, TRUE, << <<"b", ":", "m">>, <<"k">> >> >> >>,
    << <<V, TRUE, << <<"a", ":", "k">>, <<"a", ":", "k">>, <<"b", ":", "k">> >> >> >>,
    << <<V, TRUE, << <<"b", ":", "m">>, <<"a", ":", "k", ",", "m">> >> >> >>,
    << <<V, TRUE, << <<"a", ":", "k">> >> >>, <<W, FALSE, <<>> >> >> }

\* the --edges lists tried: per file, default collections and rows
EdgeRowSets ==
  { << <<V, V, << << <<"e">>, <<"V", "/", "k">>, <<"V", "/", "m">> >>,
                  << <<"e">>, <<"V", "/", "m">>, <<"V", "/", "x">> >> >> >> >>,
    << <<V, W, << << <<"e">>, <<"k">>, <<"m">> >> >> >>,
       <<W, V, << << <<"a", ":", "e", ":", "b">>, <<"V", "/", "a", ":", "k">>,
                     <<"W", "/", "m">> >> >> >> >>,
    << <<V, V, << << <<"e">>, <<"V", "/", "k", ",", "m">>, <<"V", "/", "m">> >>,
                  << <<"e", ",", "e">>, <<"V", "/", "a", ":", "k">>,
                     <<"V", "/", "b", ":", "m">> >> >> >> >> }

NoRead == [rc |-> 0, end |-> "ok", lines |-> <<>>]

NoJob == [fileName |-> 0, fromVertColl |-> <<>>, toVertColl |-> <<>>,
          columnRenames |-> <<>>]

HarnessIdle == call = <<>> /\ ret = <<>>

Init ==
  /\ opt \in [type : {"CSV", "JSONL"}, memory : {0, 1, 3},
              smartIndex : {0 - 1, 1}, nrThreads : 1 .. MaxThreads,
              sep : {Sep}, quo : {Quo}]
  /\ \E vs \in VertexKeySets :
       vfiles = [i \in 1 .. Len(vs) |->
                   vertexFile(opt.type, vs[i][1], vs[i][2], vs[i][3])]
  /\ \E es \in EdgeRowSets :
       /\ edges = [i \in 1 .. Len(es) |->
                     [fileName |-> i, fromVertColl |-> es[i][1],
                      toVertColl |-> es[i][2], columnRenames |-> <<>>]]
       /\ fs = [i \in 1 .. Len(es) |-> edgeFile(opt.type, es[i][3])]
  /\ fs0 = fs
  /\ trans = clear
  /\ vb = VertexBufferInit
  /\ read = NoRead
  /\ pc = "start"
  /\ rc = 0
  /\ queue = <<>>
  /\ error = 0
  /\ wpc = [w \in Workers |-> "exit"]
  /\ job = [w \in Workers |-> NoJob]
  /\ pass = 0
  /\ done = <<>>
  /\ HarnessIdle

Spec == Init /\ [][Next]_vars

\* ------------------------------------------------------------------------
\* Reading files back, for the properties
\* ------------------------------------------------------------------------
HasChar(s, c) == \E i \in 1 .. Len(s) : s[i] = c

\* number of data rows of an edge file
NumRowsOf(type, file) ==
  IF type = "CSV" THEN (IF Len(file.lines) = 0 THEN 0 ELSE Len(file.lines) - 1)
  ELSE Len(file.lines)

NumRows(file) == NumRowsOf(opt.type, file)

\* the raw field named name of data row i of the edge file of e (CSV: the
\* part at the header's position, with its quotes; JSONL: the string value;
\* <<>> when the row has none)
RawFieldOf(type, file, e, i, name) ==
  IF type = "CSV"
    THEN LET h == edgeHeaderCSV(file.lines[1], e, Sep, Quo)
             pos == findColPos(h.colHeaders, name)
             parts == padTo(split(file.lines[i + 1], Sep, Quo), h.ncols)
         IN  IF pos < 0 THEN <<>> ELSE At(parts, pos)
    ELSE get(file.lines[i], name).s

RawField(file, e, i, name) == RawFieldOf(opt.type, file, e, i, name)

\* the value of that field
Field(file, e, i, name) ==
  IF opt.type = "CSV" THEN unquote(RawField(file, e, i, name), opt.quo)
  ELSE RawField(file, e, i, name)

\* the keys of the vertex lines of all vertex files that can be read
VertexKeys ==
  UNION { LET f == vfiles[n]
          IN  IF ~f.ok THEN {}
              ELSE IF opt.type = "CSV"
                THEN { <<f.coll, lineKeyCSV(f.lines[i], opt.sep, opt.quo, 0)>> :
                         i \in 2 .. Len(f.lines) }
                ELSE { <<f.coll, get(f.lines[i], KEY).s>> : i \in 1 .. Len(f.lines) }
        : n \in 1 .. Len(vfiles) }

\* the attributes att for which a vertex file of collection coll holds the
\* smart key att:key
AttsOf(coll, key) ==
  { substr(vk[2], 0, find(vk[2], ":", 0)) :
      vk \in { x \in VertexKeys :
                 /\ x[1] = coll
                 /\ find(x[2], ":", 0) # npos
                 /\ substrFrom(x[2], find(x[2], ":", 0) + 1) = key } }

\* ep is of the form coll/key, key without a colon
Unresolved(ep) ==
  /\ find(ep, "/", 0) # npos
  /\ find(ep, ":", find(ep, "/", 0) + 1) = npos

CollOf(ep) == substr(ep, 0, find(ep, "/", 0))
KeyOf(ep) == substrFrom(ep, find(ep, "/", 0) + 1)

\* ep0 has been rewritten to coll/att:key for a smart key att:key of coll
Resolved(ep0, ep) ==
  \E att \in AttsOf(CollOf(ep0), KeyOf(ep0)) :
    ep = CollOf(ep0) \o <<"/">> \o att \o <<":">> \o KeyOf(ep0)

Sides == {FROM, TO}

\* CSV: nothing the passes write into data row i of edge file n holds the
\* separator (the row's _key, _from and _to, the default collection names
\* and the attributes of the endpoints' vertices); JSONL: no condition
SepFree(n, i) ==
  \/ opt.type = "JSONL"
  \/ /\ \A name \in {KEY, FROM, TO} :
          ~HasChar(Field(fs0[n], edges[n], i, name), opt.sep)
     /\ ~HasChar(edges[n].fromVertColl, opt.sep)
     /\ ~HasChar(edges[n].toVertColl, opt.sep)
     /\ \A side \in Sides :
          LET ep0 == Field(fs0[n], edges[n], i, side)
          IN  Unresolved(ep0) =>
                \A att \in AttsOf(CollOf(ep0), KeyOf(ep0)) : ~HasChar(att, opt.sep)

\* doEdges has returned 0 after its last pass: every endpoint coll/key of the
\* original files (of the rows in scope) with a smart key att:key in a
\* vertex file of coll reads coll/att:key
C1Final(sepFreeOnly) ==
  (pc = "done" /\ rc = 0 /\ opt.smartIndex <= 0) =>
    \A n \in 1 .. Len(edges) : \A i \in 1 .. NumRows(fs0[n]) : \A side \in Sides :
      LET ep0 == Field(fs0[n], edges[n], i, side)
      IN  ( /\ sepFreeOnly => SepFree(n, i)
            /\ Unresolved(ep0)
            /\ AttsOf(CollOf(ep0), KeyOf(ep0)) # {} ) =>
            /\ NumRows(fs[n]) = NumRows(fs0[n])
            /\ Resolved(ep0, Field(fs[n], edges[n], i, side))

\* a step leaves every endpoint that an earlier pass rewrote to coll/att:key
\* byte-identical
C1Step(sepFreeOnly) ==
  \A n \in 1 .. Len(edges) :
    \/ fs'[n] = fs[n]
    \/ \A i \in 1 .. NumRows(fs0[n]) : \A side \in Sides :
         LET ep0 == Field(fs0[n], edges[n], i, side)
         IN  ( /\ sepFreeOnly => SepFree(n, i)
               /\ opt.smartIndex <= 0
               /\ Unresolved(ep0)
               /\ NumRows(fs[n]) = NumRows(fs0[n])
               /\ Resolved(ep0, Field(fs[n], edges[n], i, side)) ) =>
               /\ NumRows(fs'[n]) = NumRows(fs0[n])
               /\ RawField(fs'[n], edges[n], i, side)
                    = RawField(fs[n], edges[n], i, side)

ReadKey(i) ==
  IF opt.type = "CSV" THEN lineKeyCSV(read.lines[i][2], opt.sep, opt.quo, 0)
  ELSE get(read.lines[i][2], KEY).s

ReadSmart(i) == find(ReadKey(i), ":", 0) # npos
ReadAtt(i) == substr(ReadKey(i), 0, find(ReadKey(i), ":", 0))
ReadUniq(i) ==
  read.lines[i][1] \o <<"/">> \o substrFrom(ReadKey(i), find(ReadKey(i), ":", 0) + 1)

\* the first line learned by the call that has the collName/rest of line i
FirstWith(i) ==
  CHOOSE j \in 1 .. i :
    /\ ReadSmart(j) /\ ReadUniq(j) = ReadUniq(i)
    /\ \A l \in 1 .. (j - 1) : ~(ReadSmart(l) /\ ReadUniq(l) = ReadUniq(i))

ReadMoreSucceeded == read.rc = 0 /\ read.end = "ok"

\* C9 as stated: after a successful readMore, for every vertex line read in
\* that call from collection collName whose _key has the form att:rest,
\* keyTab[collName/rest] == attTab[att], also when the same collName/rest
\* occurs on several lines.
C9_AsStated ==
  ReadMoreSucceeded =>
    \A i \in 1 .. Len(read.lines) :
      ReadSmart(i) =>
        /\ ReadUniq(i) \in DOMAIN trans.keyTab
        /\ ReadAtt(i) \in DOMAIN trans.attTab
        /\ trans.keyTab[ReadUniq(i)] = trans.attTab[ReadAtt(i)]

\* C9, amended: after a successful readMore, for every vertex line read in
\* that call whose _key has the form att:rest, keyTab[collName/rest] ==
\* attTab[att1], att1 being the attribute of the first line read in that call
\* with that collName/rest (so == attTab[att] when no earlier line of the
\* call has the same collName/rest).
C9_FirstLineWins ==
  ReadMoreSucceeded =>
    \A i \in 1 .. Len(read.lines) :
      ReadSmart(i) =>
        /\ ReadUniq(i) \in DOMAIN trans.keyTab
        /\ ReadAtt(i) \in DOMAIN trans.attTab
        /\ ReadAtt(FirstWith(i)) \in DOMAIN trans.attTab
        /\ trans.keyTab[ReadUniq(i)] = trans.attTab[ReadAtt(FirstWith(i))]

\* a successful readMore has learned two lines with the same collName/rest
\* and different attributes, and a line repeating an earlier key
C9_Witness ==
  /\ ReadMoreSucceeded
  /\ \E i, j \in 1 .. Len(read.lines) :
       /\ i < j /\ ReadSmart(i) /\ ReadSmart(j)
       /\ ReadUniq(i) = ReadUniq(j) /\ ReadAtt(i) # ReadAtt(j)
  /\ \E i, j \in 1 .. Len(read.lines) :
       i < j /\ ReadSmart(i) /\ ReadKey(i) = ReadKey(j)

\* ------------------------------------------------------------------------
\* Function harnesses: call holds the arguments, ret the results so far;
\* doEdges is not running.
\* ------------------------------------------------------------------------
DriverIdle ==
  /\ opt = [type |-> "CSV", memory |-> 0, smartIndex |-> 0 - 1, nrThreads |-> 1,
            sep |-> Sep, quo |-> Quo]
  /\ vfiles = <<>>
  /\ edges = <<>>
  /\ fs = <<>>
  /\ fs0 = <<>>
  /\ vb = VertexBufferInit
  /\ read = NoRead
  /\ pc = "idle"
  /\ rc = 0
  /\ queue = <<>>
  /\ error = 0
  /\ wpc = <<>>
  /\ job = <<>>
  /\ pass = 0
  /\ done = <<>>

\* the text of a value in a CSV field
text(v) == v.s

\* a file of the given type with the named columns / attributes; a row is
\* a sequence of JSON values, None for an attribute a JSONL record lacks
RECURSIVE members(_, _)
members(names, row) ==
  IF Len(names) = 0 THEN <<>>
  ELSE (IF Head(row) = None THEN <<>> ELSE <<Member(Head(names), Head(row))>>)
       \o members(Tail(names), Tail(row))

recordLine(type, names, row) ==
  IF type = "CSV" THEN csvLine([j \in 1 .. Len(row) |-> text(row[j])])
  ELSE members(names, row)

recordsFile(type, names, rows) ==
  [ok |-> TRUE,
   lines |-> (IF type = "CSV" THEN <<csvLine(names)>> ELSE <<>>)
             \o [i \in 1 .. Len(rows) |-> recordLine(type, names, rows[i])]]

\* a table as readMore builds it: learnSmartKey for each <<collection, key>>
RECURSIVE learnKeys(_, _)
learnKeys(t, pairs) ==
  IF Len(pairs) = 0 THEN t
  ELSE learnKeys(learnSmartKey(t, Head(pairs)[2], Head(pairs)[1]), Tail(pairs))

Tables ==
  { clear,
    learnKeys(clear, << <<V, <<"a", ":", "k">> >>, <<V, <<"b", ":", "m">> >>,
                        <<W, <<"b", ":", "m">> >> >>),
    learnKeys(clear, << <<V, <<":", "n">> >>, <<V, <<"a", ":", "b", ":", "c">> >>,
                        <<V, <<"b", ":", "m">> >>, <<V, <<"a", ":", "k">> >> >>) }

SmartIndexes == {0 - 1, 1}

Five == IntVal(<<"5">>)

\* ----- edge lines -----
EdgeKeyVals == {None, StrVal(<<"e">>), StrVal(<<"p", ":", "q">>), Five}

EdgeEndVals ==
  { StrVal(x) : x \in { <<"k">>, <<"m">>, <<"V", "/", "k">>, <<"V", "/", "m">>,
                        <<"V", "/", "a", ":", "k">>, <<"V", "/", "z">>,
                        <<"V", "/", "b", ":", "c">>, <<"V", "/", "n">>,
                        <<"V", "/", "a", ":", "k", "\"">> } }
  \cup {Five}

EdgeVW == [fileName |-> 1, fromVertColl |-> V, toVertColl |-> W,
           columnRenames |-> <<>>]

\* the columns of an edge file whose rows have the given _key
edgeNames(key) == IF key = None THEN <<FROM, TO>> ELSE <<KEY, FROM, TO>>
edgeRow(key, from, to) == IF key = None THEN <<from, to>> ELSE <<key, from, to>>

\* the arguments of an edge line harness
IsEdgeLineCall(c) ==
  \E ty \in {"CSV", "JSONL"}, si \in SmartIndexes, tb \in Tables,
     k \in EdgeKeyVals, f \in EdgeEndVals, t \in EdgeEndVals :
    c = [fn |-> "edgeLine", type |-> ty, smartIndex |-> si, table |-> tb,
         e |-> EdgeVW, header |-> csvLine(edgeNames(k)),
         line |-> recordLine(ty, edgeNames(k), edgeRow(k, f, t))]

\* ----- vertex lines -----
R == <<"r">>

VertexOptions ==
  LET base == [type |-> "CSV", sep |-> Sep, quo |-> Quo, smartAttr |-> R,
               haveSmartValue |-> FALSE, smartValue |-> <<>>, smartIndex |-> 0 - 1,
               hashSmartValue |-> FALSE, writeKey |-> TRUE, keyValue |-> <<>>,
               smartDefault |-> <<>>, renames |-> <<>>]
  IN  { base,
        [base EXCEPT !.haveSmartValue = TRUE, !.smartValue = NameN],
        [base EXCEPT !.haveSmartValue = TRUE, !.smartValue = NameN, !.smartIndex = 1],
        [base EXCEPT !.haveSmartValue = TRUE, !.smartValue = KEY, !.smartIndex = 2],
        [base EXCEPT !.haveSmartValue = TRUE, !.smartValue = KEY,
                     !.hashSmartValue = TRUE],
        [base EXCEPT !.writeKey = FALSE],
        [base EXCEPT !.smartDefault = <<"d">>],
        [base EXCEPT !.keyValue = NameN] }

VertexNames == { <<KEY, R, NameN>>, <<R, NameN>>, <<KEY, NameN>> }

VertexKeyVals ==
  { StrVal(x) : x \in { <<"k">>, <<"a", ":", "k">>, <<"b", ":", "k">>,
                        <<"a", ":", "b", ":", "c">>, <<>>, <<"k", "\"">> } }
VertexRVals == { StrVal(<<"a">>), StrVal(<<>>), IntVal(<<"7">>) }
VertexNVals == { StrVal(<<"x">>), StrVal(<<"a">>), StrVal(<<"x", ":", "y">>) }

\* the row of the given columns holding the given values
vertexRow(names, k, r, n) ==
  [j \in 1 .. Len(names) |->
     IF names[j] = KEY THEN k ELSE IF names[j] = R THEN r ELSE n]

\* a CSV line whose _key field is enclosed in quote characters whether or
\* not it holds one
csvLineKeyQuoted(names, row) ==
  join([j \in 1 .. Len(row) |->
          IF names[j] = KEY THEN quoteLoop(text(row[j]), Quo, 0, <<Quo>>)
          ELSE csvField(text(row[j]))], Sep)

\* the arguments of a vertex line harness
IsVertexLineCall(c) ==
  \E ty \in {"CSV", "JSONL"}, o \in VertexOptions, nm \in VertexNames,
     k \in VertexKeyVals, r \in VertexRVals, n \in VertexNVals,
     keyQuoted \in BOOLEAN :
    c = [fn |-> "vertexLine", type |-> ty, o |-> [o EXCEPT !.type = ty],
         header |-> csvLine(nm),
         line |-> IF keyQuoted /\ ty = "CSV"
                    THEN csvLineKeyQuoted(nm, vertexRow(nm, k, r, n))
                    ELSE recordLine(ty, nm, vertexRow(nm, k, r, n))]

InitLine ==
  /\ DriverIdle
  /\ trans = clear
  /\ IsEdgeLineCall(call) \/ IsVertexLineCall(call)
  /\ ret = <<>>

\* the header part and one pass of the line loop of transformEdgesCSV
EdgeLineCSV ==
  /\ call.fn = "edgeLine" /\ call.type = "CSV" /\ ret = <<>>
  /\ \E h \in {edgeHeaderCSV(call.header, call.e, Sep, Quo)} :
       \E r \in {edgeLineCSV(call.line, Sep, Quo, h.ncols, h.keyPos, h.fromPos,
                             h.toPos, call.e, call.table, call.smartIndex)} :
         ret' = <<[colHeaders |-> h.colHeaders,
                   in |-> padTo(split(call.line, Sep, Quo), h.ncols),
                   out |-> r.parts, fromAttr |-> r.fromAttr, toAttr |-> r.toAttr]>>
  /\ UNCHANGED <<dvars, call>>

\* one pass of the line loop of transformEdgesJSONL
EdgeLineJSONL ==
  /\ call.fn = "edgeLine" /\ call.type = "JSONL" /\ ret = <<>>
  /\ \E r \in {edgeLineJSONL(call.line, call.e, call.table, call.smartIndex)} :
       ret' = <<[in |-> call.line, out |-> r.line,
                 fromAttr |-> r.fromAttr, toAttr |-> r.toAttr,
                 fromText |-> r.fromText, toText |-> r.toText]>>
  /\ UNCHANGED <<dvars, call>>

\* the header part of doVertices and one call of transformVertexCSV
VertexLineCSV ==
  /\ call.fn = "vertexLine" /\ call.type = "CSV" /\ ret = <<>>
  /\ \E h \in {vertexHeaderCSV(call.header, call.o)} :
       \E r \in {vertexLineCSV(call.line, call.o, h)} :
         ret' = <<[colHeaders |-> h.colHeaders, in |-> split(call.line, Sep, Quo),
                   out |-> r.parts, ub |-> r.ub, att |-> r.att, key |-> r.key,
                   hasKey |-> ~r.ub, keyWritten |-> ~r.ub /\ h.keyPos >= 0,
                   newKey |-> IF h.keyPos >= 0
                                THEN unquote(At(r.parts, h.keyPos), Quo) ELSE <<>>]>>
  /\ UNCHANGED <<dvars, call>>

\* one call of transformVertexJSONL
VertexLineJSONL ==
  /\ call.fn = "vertexLine" /\ call.type = "JSONL" /\ ret = <<>>
  /\ \E r \in {vertexLineJSONL(call.line, call.o)} :
       ret' = <<[in |-> call.line, out |-> r.line, ub |-> FALSE, att |-> r.att,
                 key |-> r.key, hasKey |-> r.keyIsString,
                 keyWritten |-> r.keyWritten, newKey |-> r.newKey,
                 text |-> r.text]>>
  /\ UNCHANGED <<dvars, call>>

NextLine ==
  \/ EdgeLineCSV
  \/ EdgeLineJSONL
  \/ VertexLineCSV
  \/ VertexLineJSONL

SpecLine == InitLine /\ [][NextLine]_vars

\* ----- what a line harness read and wrote -----
EdgeLineDone == call.fn = "edgeLine" /\ ret # <<>>
VertexLineDone == call.fn = "vertexLine" /\ ret # <<>>

PosOf(name) == findColPos(ret[1].colHeaders, name)

\* the record read has a string field name / the record written has one
InHas(name) ==
  IF call.type = "CSV" THEN PosOf(name) >= 0 ELSE isString(get(ret[1].in, name))
OutHas(name) ==
  IF call.type = "CSV" THEN PosOf(name) >= 0 ELSE isString(get(ret[1].out, name))

\* its value
InVal(name) ==
  IF call.type = "CSV" THEN unquote(At(ret[1].in, PosOf(name)), Quo)
  ELSE get(ret[1].in, name).s
OutVal(name) ==
  IF call.type = "CSV" THEN unquote(At(ret[1].out, PosOf(name)), Quo)
  ELSE get(ret[1].out, name).s

\* the field is in the record written exactly as it was in the record read
OutSame(name) ==
  IF call.type = "CSV"
    THEN At(ret[1].out, PosOf(name)) = At(ret[1].in, PosOf(name))
    ELSE get(ret[1].out, name) = get(ret[1].in, name)

\* the coll/key string of the endpoint read: the default collection is
\* prepended to a value without a slash
Default(side) == IF side = FROM THEN call.e.fromVertColl ELSE call.e.toVertColl
Endpoint(side) ==
  IF find(InVal(side), "/", 0) = npos THEN Default(side) \o <<"/">> \o InVal(side)
  ELSE InVal(side)

AfterSlash(ep) == substrFrom(ep, find(ep, "/", 0) + 1)

\* the endpoint written has exactly one colon after the slash, and between
\* the two stands the attribute the table has for the endpoint read
OneColonWithTableAtt(side) ==
  /\ OutHas(side)
  /\ find(OutVal(side), "/", 0) # npos
  /\ Count(AfterSlash(OutVal(side)), ":") = 1
  /\ substr(AfterSlash(OutVal(side)), 0, find(AfterSlash(OutVal(side)), ":", 0))
       = At(call.table.smartAttributes, call.table.keyTab[Endpoint(side)])

\* C2 as stated: for every edge endpoint (CSV and JSONL) whose coll/key
\* string is a key of keyTab, the rewritten endpoint has exactly one colon
\* after the slash, and the part between them equals
\* smartAttributes[keyTab[endpoint]].
C2_AsStated ==
  EdgeLineDone =>
    \A side \in Sides :
      (InHas(side) /\ Endpoint(side) \in DOMAIN call.table.keyTab) =>
        OneColonWithTableAtt(side)

\* C2, amended: the same for the endpoints that the table is consulted for:
\* smart-index is not positive and the endpoint read has no colon after its
\* slash; the endpoint written is then coll/att:key with att =
\* smartAttributes[keyTab[coll/key]].
C2_TableEndpoint ==
  EdgeLineDone =>
    \A side \in Sides :
      ( /\ InHas(side)
        /\ call.smartIndex <= 0
        /\ Count(AfterSlash(Endpoint(side)), ":") = 0
        /\ Endpoint(side) \in DOMAIN call.table.keyTab ) =>
        /\ OneColonWithTableAtt(side)
        /\ OutVal(side) =
             substr(Endpoint(side), 0, find(Endpoint(side), "/", 0) + 1)
               \o At(call.table.smartAttributes, call.table.keyTab[Endpoint(side)])
               \o <<":">> \o AfterSlash(Endpoint(side))

\* an edge line of either type has been transformed whose _from is in the
\* table without a slash of its own and whose _to is in the table under
\* another attribute
C2_Witness ==
  /\ EdgeLineDone
  /\ call.smartIndex <= 0
  /\ InHas(FROM) /\ InHas(TO)
  /\ find(InVal(FROM), "/", 0) = npos
  /\ \A side \in Sides :
       /\ Count(AfterSlash(Endpoint(side)), ":") = 0
       /\ Endpoint(side) \in DOMAIN call.table.keyTab
  /\ call.table.keyTab[Endpoint(FROM)] # call.table.keyTab[Endpoint(TO)]
  /\ OutVal(FROM) # InVal(FROM)
  /\ OutVal(TO) # InVal(TO)

\* C3 as stated: for every edge record (CSV and JSONL): if _key is present,
\* both endpoint attributes resolved to non-empty values and the existing
\* _key contains no colon, the output _key is fromAtt:origKey:toAtt; in every
\* other case the _key field is still in the output record with its original
\* value.
C3_AsStated ==
  (EdgeLineDone /\ InHas(KEY)) =>
    IF /\ Len(ret[1].fromAttr) > 0
       /\ Len(ret[1].toAttr) > 0
       /\ Count(InVal(KEY), ":") = 0
      THEN /\ OutHas(KEY)
           /\ OutVal(KEY) = ret[1].fromAttr \o <<":">> \o InVal(KEY) \o <<":">>
                              \o ret[1].toAttr
      ELSE OutHas(KEY) /\ OutSame(KEY)

\* a JSONL edge record with _key e whose endpoints V/z are not in the (empty)
\* table has been written without its _key
C3_KeyDropped ==
  /\ EdgeLineDone
  /\ call.type = "JSONL"
  /\ call.table = clear
  /\ call.smartIndex <= 0
  /\ ret[1].in = <<Member(KEY, StrVal(<<"e">>)),
                   Member(FROM, StrVal(<<"V", "/", "z">>)),
                   Member(TO, StrVal(<<"V", "/", "z">>))>>
  /\ ret[1].out = <<Member(FROM, StrVal(<<"V", "/", "z">>)),
                    Member(TO, StrVal(<<"V", "/", "z">>))>>

\* C4 as stated: in the vertex transform (CSV and JSONL), for every derived
\* attribute att (the empty string included) and every source key orig that
\* contains no colon, the written _key equals att:orig.
C4_AsStated ==
  (VertexLineDone /\ ret[1].hasKey /\ Count(ret[1].key, ":") = 0) =>
    /\ ret[1].keyWritten
    /\ ret[1].newKey = ret[1].att \o <<":">> \o ret[1].key

\* a JSONL vertex with _key k and an empty attribute has been written with
\* _key k, where the CSV transform of the same vertex writes :k
C4_EmptyAttribute ==
  /\ VertexLineDone
  /\ call.type = "JSONL"
  /\ ret[1].hasKey
  /\ ret[1].key = <<"k">>
  /\ ret[1].att = <<>>
  /\ ret[1].keyWritten
  /\ ret[1].newKey = <<"k">>

\* C5 as stated: in the vertex transform (CSV and JSONL), for every source
\* key orig that contains a colon: if the part before the first colon equals
\* att the key is written unchanged; otherwise the key is rewritten to att,
\* a colon and the part of orig after the first colon.
C5_AsStated ==
  (VertexLineDone /\ ret[1].hasKey /\ Count(ret[1].key, ":") > 0) =>
    LET orig == ret[1].key
        splitPos == find(orig, ":", 0)
    IN  /\ ret[1].keyWritten
        /\ ret[1].newKey =
             IF substr(orig, 0, splitPos) = ret[1].att THEN orig
             ELSE ret[1].att \o <<":">> \o substrFrom(orig, splitPos + 1)

\* a JSONL vertex with _key b:k and attribute a has been written with _key
\* b:k
C5_WrongPrefixKept ==
  /\ VertexLineDone
  /\ call.type = "JSONL"
  /\ ret[1].hasKey
  /\ ret[1].key = <<"b", ":", "k">>
  /\ ret[1].att = <<"a">>
  /\ ret[1].keyWritten
  /\ ret[1].newKey = <<"b", ":", "k">>

\* C8 as stated: every _key written by the vertex transform contains exactly
\* one colon, and every _key written by the edge transform for a record whose
\* two endpoints both resolved contains exactly two colons.
C8_AsStated ==
  /\ (VertexLineDone /\ ret[1].keyWritten) => Count(ret[1].newKey, ":") = 1
  /\ (EdgeLineDone /\ Len(ret[1].fromAttr) > 0 /\ Len(ret[1].toAttr) > 0
        /\ OutHas(KEY)) => Count(OutVal(KEY), ":") = 2

\* a JSONL vertex key written without any colon, and a CSV edge key p:q kept
\* with one colon although both endpoints resolved
C8_ColonCounts ==
  \/ /\ VertexLineDone
     /\ call.type = "JSONL"
     /\ ret[1].keyWritten
     /\ Len(ret[1].newKey) > 0
     /\ Count(ret[1].newKey, ":") = 0
  \/ /\ EdgeLineDone
     /\ call.type = "CSV"
     /\ Len(ret[1].fromAttr) > 0 /\ Len(ret[1].toAttr) > 0
     /\ OutHas(KEY)
     /\ OutVal(KEY) = <<"p", ":", "q">>

\* ------------------------------------------------------------------------
\* doVertices run again on its own output
\* ------------------------------------------------------------------------
MaxRuns == 2

VertexRowSets ==
  { << <<StrVal(<<"k">>), StrVal(<<"a">>), StrVal(<<"x">>)>> >>,
    << <<StrVal(<<"a", ":", "k">>), StrVal(<<"a">>), StrVal(<<"x">>)>>,
       <<StrVal(<<"b", ":", "k">>), StrVal(<<"a">>), StrVal(<<"x">>)>> >>,
    << <<StrVal(<<"k">>), StrVal(<<>>), StrVal(<<"x">>)>> >>,
    << <<StrVal(<<"k">>), StrVal(<<"a">>), StrVal(<<"x", ":", "y">>)>> >>,
    << <<StrVal(<<"k", ",", "x">>), StrVal(<<"a">>), StrVal(<<"x">>)>> >>,
    << <<StrVal(<<"a", ":", "b", ":", "c">>), StrVal(<<"a">>), StrVal(<<"x">>)>>,
       <<StrVal(<<"k", "m">>), IntVal(<<"7">>), StrVal(<<"a">>)>> >> }

InitVertices ==
  /\ DriverIdle
  /\ trans = clear
  /\ \E ty \in {"CSV", "JSONL"}, o \in VertexOptions, nm \in VertexNames,
        rows \in VertexRowSets :
       call = [fn |-> "doVertices", type |-> ty, o |-> [o EXCEPT !.type = ty],
               input |-> recordsFile(ty, nm,
                           [i \in 1 .. Len(rows) |->
                              vertexRow(nm, rows[i][1], rows[i][2], rows[i][3])])]
  /\ ret = <<>>

\* doVertices on --input, then on the --output of the run before, with the
\* same options
RunVertices ==
  /\ call.fn = "doVertices"
  /\ Len(ret) < MaxRuns
  /\ ret # <<>> => (ret[Len(ret)].rc = 0 /\ ret[Len(ret)].end = "ok")
  /\ \E r \in {doVertices(IF ret = <<>> THEN call.input
                          ELSE [ok |-> TRUE, lines |-> ret[Len(ret)].out],
                          call.o)} :
       ret' = Append(ret, r)
  /\ UNCHANGED <<dvars, call>>

SpecVertices == InitVertices /\ [][RunVertices]_vars

\* C6 as stated: the vertex transform is idempotent: for every vertex file
\* and fixed options, the vertex transform applied to the output of a first
\* run produces an output identical to that first output.
C6_AsStated ==
  (call.fn = "doVertices" /\ Len(ret) >= 2) =>
    /\ ret[2].rc = 0
    /\ ret[2].end = "ok"
    /\ ret[2].out = ret[1].out

\* with the default options, the JSONL vertex {"r":"a","n":"x"} has been
\* written with _key "" by the first run and with _key a: by the second
C6_SecondRunDiffers ==
  /\ call.fn = "doVertices"
  /\ call.type = "JSONL"
  /\ call.o.writeKey /\ ~call.o.haveSmartValue
  /\ call.o.keyValue = <<>> /\ call.o.smartDefault = <<>>
  /\ call.input.lines = << <<Member(R, StrVal(<<"a">>)), Member(NameN, StrVal(<<"x">>))>> >>
  /\ Len(ret) = 2
  /\ ret[1].out = << <<Member(KEY, StrVal(<<>>)), Member(R, StrVal(<<"a">>)),
                       Member(NameN, StrVal(<<"x">>))>> >>
  /\ ret[2].out = << <<Member(KEY, StrVal(<<"a", ":">>)), Member(R, StrVal(<<"a">>)),
                       Member(NameN, StrVal(<<"x">>))>> >>

\* ------------------------------------------------------------------------
\* The edge transform run again on the file it wrote, with the same table
\* ------------------------------------------------------------------------
MaxEdgePasses == 3

NameXY == <<"x", ",", "y">>

EdgeVV == [fileName |-> 1, fromVertColl |-> V, toVertColl |-> V,
           columnRenames |-> <<>>]

\* edge files: columns and rows
EdgeFileSets ==
  { << <<KEY, FROM, TO>>,
       << <<StrVal(<<"e">>), StrVal(<<"V", "/", "k">>), StrVal(<<"V", "/", "m">>)>>,
          <<StrVal(<<"e">>), StrVal(<<"V", "/", "m">>), StrVal(<<"V", "/", "x">>)>> >> >>,
    << <<KEY, FROM, TO>>,
       << <<StrVal(<<"e">>), StrVal(<<"k">>), StrVal(<<"m">>)>> >> >>,
    << <<KEY, FROM, TO>>,
       << <<StrVal(<<"e">>), StrVal(<<"V", "/", "a", ":", "k">>),
            StrVal(<<"V", "/", "b", ":", "m">>)>> >> >>,
    << <<KEY, FROM, TO>>,
       << <<StrVal(<<"e", ",", "e">>), StrVal(<<"V", "/", "a", ":", "k">>),
            StrVal(<<"V", "/", "b", ":", "m">>)>> >> >>,
    << <<KEY, FROM, TO, NameXY>>,
       << <<StrVal(<<"p", ":", "q">>), StrVal(<<"V", "/", "z">>),
            StrVal(<<"V", "/", "a", ":", "k">>), StrVal(<<"x">>)>> >> >>,
    << <<FROM, TO, NameN>>,
       << <<StrVal(<<"V", "/", "k">>), Five, StrVal(<<"x">>)>>,
          <<StrVal(<<"V", "/", "n">>), StrVal(<<"V", "/", "k">>), None>> >> >> }

InitEdgePasses ==
  /\ DriverIdle
  /\ trans \in Tables
  /\ \E ty \in {"CSV", "JSONL"}, si \in SmartIndexes, f \in EdgeFileSets :
       call = [fn |-> "transformEdges", type |-> ty, smartIndex |-> si,
               e |-> EdgeVV, file |-> recordsFile(ty, f[1], f[2])]
  /\ ret = <<>>

\* the edge file as the k-th pass left it
FileAfter(k) == IF k = 0 THEN call.file ELSE ret[k]

\* one more pass of transformEdgesCSV / transformEdgesJSONL over the file,
\* with the table unchanged
EdgePass ==
  /\ call.fn = "transformEdges"
  /\ Len(ret) < MaxEdgePasses
  /\ \E r \in {IF call.type = "CSV"
                 THEN transformEdgesCSV(FileAfter(Len(ret)), trans, call.e, Sep, Quo,
                                        call.smartIndex)
                 ELSE transformEdgesJSONL(FileAfter(Len(ret)), trans, call.e,
                                          call.smartIndex)} :
       ret' = Append(ret, IF r.renamed THEN [ok |-> TRUE, lines |-> r.out]
                          ELSE FileAfter(Len(ret)))
  /\ UNCHANGED <<dvars, call>>

SpecEdgePasses == InitEdgePasses /\ [][EdgePass]_vars

\* the two files have the same rows with the same _from and _to fields
SameEndpoints(a, b) ==
  /\ NumRowsOf(call.type, a) = NumRowsOf(call.type, b)
  /\ \A i \in 1 .. NumRowsOf(call.type, a) : \A side \in Sides :
       RawFieldOf(call.type, a, call.e, i, side)
         = RawFieldOf(call.type, b, call.e, i, side)

\* CSV: no column name and no field of the file holds the separator
SepFreeFile(file) ==
  \/ call.type = "JSONL"
  \/ \A i \in 1 .. Len(file.lines) :
       LET parts == split(file.lines[i], Sep, Quo)
       IN  \A j \in 1 .. Len(parts) : ~HasChar(unquote(parts[j], Quo), Sep)

MaxCalls == 4

LearnKeys ==
  { <<"k">>, <<"a", ":", "k">>, <<"b", ":", "k">>, <<"a", ":", "m">>,
    <<":", "k">>, <<"a", ":", "b", ":", "k">> }

InitTranslation ==
  /\ DriverIdle
  /\ trans = clear
  /\ call = <<>>
  /\ ret = <<>>

\* trans.clear()
Clear ==
  /\ Len(call) < MaxCalls
  /\ trans' = clear
  /\ call' = Append(call, <<"clear">>)
  /\ UNCHANGED <<opt, vfiles, edges, fs, fs0, vb, read, pc, rc, queue, error,
                 wpc, job, pass, done, ret>>

\* learnSmartKey(trans, key, vertexCollName)
Learn(key, vertexCollName) ==
  /\ Len(call) < MaxCalls
  /\ \E t \in {learnSmartKey(trans, key, vertexCollName)} : trans' = t
  /\ call' = Append(call, <<"learnSmartKey", key, vertexCollName>>)
  /\ UNCHANGED <<opt, vfiles, edges, fs, fs0, vb, read, pc, rc, queue, error,
                 wpc, job, pass, done, ret>>

NextTranslation ==
  \/ Clear
  \/ \E key \in LearnKeys, coll \in {V, W} : Learn(key, coll)

SpecTranslation == InitTranslation /\ [][NextTranslation]_vars

\* C10: after any sequence of clear() and learnSmartKey() calls on a
\* Translation, smartAttributes[attTab[s]] == s for every s in attTab,
\* smartAttributes has no duplicate entries, and every value stored in keyTab
\* is a valid index into smartAttributes.
C10_TranslationInvariant ==
  /\ \A s \in DOMAIN trans.attTab :
       /\ trans.attTab[s] \in 0 .. (Len(trans.smartAttributes) - 1)
       /\ At(trans.smartAttributes, trans.attTab[s]) = s
  /\ \A i, j \in 1 .. Len(trans.smartAttributes) :
       trans.smartAttributes[i] = trans.smartAttributes[j] => i = j
  /\ \A k \in DOMAIN trans.keyTab :
       trans.keyTab[k] \in 0 .. (Len(trans.smartAttributes) - 1)

\* a table cleared after it had learned something holds, again, two
\* attributes and a key of the second one
C10_Witness ==
  /\ Len(call) = MaxCalls
  /\ call[1][1] = "learnSmartKey"
  /\ call[2][1] = "clear"
  /\ Len(trans.smartAttributes) = 2
  /\ \E k \in DOMAIN trans.keyTab : trans.keyTab[k] = 1

\* ------------------------------------------------------------------------
\* A run of the program: main hands the options to doVertices or to doEdges.
\* The --edges lists here name a file twice, name a file that cannot be
\* opened, or name three files; the --input file may be one that cannot be
\* opened.
\* ------------------------------------------------------------------------
EdgeRowsKM == << << <<"e">>, <<"V", "/", "k">>, <<"V", "/", "m">> >> >>
EdgeRowsMK == << << <<"e">>, <<"m">>, <<"k">> >>,
                 << <<"p", ":", "q">>, <<"V", "/", "a", ":", "k">>, <<"z">> >> >>

\* per list: the descriptors <<file name, fromVertColl, toVertColl>> and the
\* files <<ok, rows>> by name
RunEdgeSets ==
  { [d |-> << <<1, V, V>>, <<2, V, W>> >>,
     f |-> << <<TRUE, EdgeRowsKM>>, <<TRUE, EdgeRowsMK>> >>],
    [d |-> << <<1, V, V>>, <<1, V, W>> >>,
     f |-> << <<TRUE, EdgeRowsKM>> >>],
    [d |-> << <<1, V, V>>, <<2, V, V>> >>,
     f |-> << <<FALSE, <<>> >>, <<TRUE, EdgeRowsKM>> >>],
    [d |-> << <<1, V, V>>, <<2, W, V>>, <<3, V, W>> >>,
     f |-> << <<TRUE, EdgeRowsKM>>, <<TRUE, EdgeRowsMK>>, <<TRUE, EdgeRowsKM>> >>] }

RunVertexSets ==
  { << <<V, TRUE, << <<"a", ":", "k">>, <<"b", ":", "m">> >> >> >>,
    << <<V, FALSE, <<>> >> >>,
    << <<V, TRUE, << <<"a", ":", "k">> >> >>, <<W, TRUE, << <<"b", ":", "m">> >> >> >> }

\* main with the subcommand edges, --threads being one of threads and the
\* --edges list one of edgeSets; a descriptor may have a fourth part, its
\* column renames
InitEdgesWith(threads, edgeSets) ==
  /\ opt \in [type : {"CSV", "JSONL"}, memory : {1, 3}, smartIndex : {0 - 1},
              nrThreads : threads, sep : {Sep}, quo : {Quo}]
  /\ \E vs \in RunVertexSets :
       vfiles = [i \in 1 .. Len(vs) |->
                   vertexFile(opt.type, vs[i][1], vs[i][2], vs[i][3])]
  /\ \E es \in edgeSets :
       /\ edges = [i \in 1 .. Len(es.d) |->
                     [fileName |-> es.d[i][1], fromVertColl |-> es.d[i][2],
                      toVertColl |-> es.d[i][3],
                      columnRenames |-> IF Len(es.d[i]) > 3 THEN es.d[i][4]
                                        ELSE <<>>]]
       /\ fs = [i \in 1 .. Len(es.f) |->
                  IF es.f[i][1] THEN edgeFile(opt.type, es.f[i][2])
                  ELSE [ok |-> FALSE, lines |-> <<>>]]
  /\ fs0 = fs
  /\ trans = clear
  /\ vb = VertexBufferInit
  /\ read = NoRead
  /\ pc = "start"
  /\ rc = 0
  /\ queue = <<>>
  /\ error = 0
  /\ wpc = [w \in Workers |-> "exit"]
  /\ job = [w \in Workers |-> NoJob]
  /\ pass = 0
  /\ done = <<>>
  /\ HarnessIdle

InitEdgesThreads(threads) == InitEdgesWith(threads, RunEdgeSets)

InitEdgesRun == InitEdgesThreads(1 .. MaxThreads)

\* main with the subcommand vertices
InitVerticesRun ==
  /\ DriverIdle
  /\ trans = clear
  /\ \E ty \in {"CSV", "JSONL"}, o \in VertexOptions, nm \in VertexNames,
        rows \in VertexRowSets, ok \in BOOLEAN :
       call = [fn |-> "doVertices", type |-> ty, o |-> [o EXCEPT !.type = ty],
               input |-> IF ok
                           THEN recordsFile(ty, nm,
                                  [i \in 1 .. Len(rows) |->
                                     vertexRow(nm, rows[i][1], rows[i][2], rows[i][3])])
                           ELSE [ok |-> FALSE, lines |-> <<>>]]
  /\ ret = <<>>

InitRuns == InitEdgesRun \/ InitVerticesRun

\* return doVertices(options)
VerticesRun == pc = "idle" /\ RunVertices

NextRuns ==
  \/ Next
  \/ VerticesRun

SpecRuns == InitRuns /\ [][NextRuns]_vars

\* the run is in its worker phase / every --edges descriptor names another file
InWorkerPhase == pc = "join"
FilesNamedOnce ==
  \A i, j \in 1 .. Len(edges) : edges[i].fileName = edges[j].fileName => i = j

\* two workers are inside the edge transform of one file
SameFileAtOnce ==
  \E w1, w2 \in Workers :
    /\ w1 # w2
    /\ wpc[w1] = "work" /\ wpc[w2] = "work"
    /\ job[w1].fileName = job[w2].fileName

\* C11 as stated: in the worker pool, for every thread count and every list
\* of --edges descriptors, no two workers are inside the edge transform of
\* the same file at the same time.
C11_AsStated == InWorkerPhase => ~SameFileAtOnce

\* C11, amended: a descriptor is popped under the mutex by one worker only,
\* so no two workers are inside the edge transform of the same file at the
\* same time when every --edges descriptor names another file; the
\* descriptors still queued and the ones held by working workers are then
\* pairwise different.
C11_DescriptorsApart ==
  (InWorkerPhase /\ FilesNamedOnce) =>
    /\ ~SameFileAtOnce
    /\ \A w \in Workers :
         wpc[w] = "work" =>
           \A i \in 1 .. Len(queue) : queue[i].fileName # job[w].fileName

\* two workers are at work on two files of a list that names each file once
C11_Witness ==
  /\ InWorkerPhase
  /\ FilesNamedOnce
  /\ Len(edges) = 3
  /\ \E w1, w2 \in Workers :
       /\ wpc[w1] = "work" /\ wpc[w2] = "work"
       /\ job[w1].fileName # job[w2].fileName

\* the run has ended, with the code it returned
RunEnded == IF pc = "idle" THEN ret # <<>> ELSE pc = "done"
RunCode == IF pc = "idle" THEN ret[1].rc ELSE rc

\* an input file of the run cannot be opened: the --input file, an edge
\* file, or a vertex file of edge mode
InputUnopenable ==
  IF pc = "idle" THEN ~call.input.ok
  ELSE \/ \E i \in 1 .. Len(edges) : ~fs0[edges[i].fileName].ok
       \/ \E i \in 1 .. Len(vfiles) : ~vfiles[i].ok

\* C12 as stated: whenever an input file cannot be opened (the --input file
\* in vertex mode, an edge file or a vertex file in edge mode), for both
\* types, the run ends with a non-zero result code.
C12_AsStated == (RunEnded /\ InputUnopenable) => RunCode # 0

\* edge mode of type JSONL has ended with code 0 although an edge file could
\* not be opened; the file now exists and is empty
C12_OpenFailureReturnsZero ==
  /\ pc = "done" /\ rc = 0
  /\ opt.type = "JSONL"
  /\ \A i \in 1 .. Len(vfiles) : vfiles[i].ok
  /\ \E i \in 1 .. Len(edges) :
       /\ ~fs0[edges[i].fileName].ok
       /\ fs[edges[i].fileName] = [ok |-> TRUE, lines |-> <<>>]

\* ------------------------------------------------------------------------
\* Vertex lines of a CSV file with --write-key false
\* ------------------------------------------------------------------------
\* the column names of the header line read
HeaderRead == [i \in 1 .. Len(split(call.header, Sep, Quo)) |->
                 unquote(split(call.header, Sep, Quo)[i], Quo)]

VertexLineNoWriteKey ==
  VertexLineDone /\ call.type = "CSV" /\ ~call.o.writeKey

\* C13 as stated: in CSV vertex mode with --write-key=false, if the header
\* has a _key column every row's _key field is emitted byte-identical to the
\* input, and if it has none no _key column or extra field is added to the
\* header or to any row.
C13_AsStated ==
  VertexLineNoWriteKey =>
    IF findColPos(HeaderRead, KEY) >= 0
      THEN /\ ~ret[1].ub
           /\ At(ret[1].out, findColPos(HeaderRead, KEY))
                = At(ret[1].in, findColPos(HeaderRead, KEY))
      ELSE /\ ~ret[1].ub
           /\ findColPos(ret[1].colHeaders, KEY) < 0
           /\ Len(ret[1].out) = Len(ret[1].colHeaders)

\* with --write-key false a row's _key field k was rewritten to a:k
C13_KeyTouched ==
  /\ VertexLineNoWriteKey
  /\ findColPos(HeaderRead, KEY) >= 0
  /\ ~ret[1].ub
  /\ At(ret[1].in, findColPos(HeaderRead, KEY)) = <<"k">>
  /\ At(ret[1].out, findColPos(HeaderRead, KEY)) = <<"a", ":", "k">>

\* ------------------------------------------------------------------------
\* The CSV codec on every short string (as runTests applies it to a few)
\* ------------------------------------------------------------------------
\* longest string tried
MaxStrLen == 5

CodecChars == {"x", ",", "\""}
CodecStrings == UNION {[1 .. k -> CodecChars] : k \in 0 .. MaxStrLen}
\* the second string of a pair
CodecSeconds == {<<>>, <<"x">>, <<",">>, <<"\"">>, <<"x", ",", "x">>,
                 <<"\"", ",", "\"">>}
\* separator and quote character
CodecPairs == {<<",", "\"">>, <<"\"", ",">>}

InitCodec ==
  /\ DriverIdle
  /\ trans = clear
  /\ \E a \in CodecStrings, b \in CodecSeconds, p \in CodecPairs :
       call = [fn |-> "codec", a |-> a, b |-> b, sep |-> p[1], quo |-> p[2]]
  /\ ret = <<>>

\* unquote(quote(a, quo), quo)
QuoteUnquote ==
  /\ call.fn = "codec" /\ ret = <<>>
  /\ \E s \in {quote(call.a, call.quo)} :
       \E u \in {unquote(s, call.quo)} :
         ret' = <<[op |-> "quote", quoted |-> s, back |-> u]>>
  /\ UNCHANGED <<dvars, call>>

\* split(quote(a, quo) + sep + quote(b, quo), sep, quo)
SplitPair ==
  /\ call.fn = "codec" /\ ret = <<>>
  /\ \E l \in {quote(call.a, call.quo) \o <<call.sep>> \o quote(call.b, call.quo)} :
       \E v \in {split(l, call.sep, call.quo)} :
         ret' = <<[op |-> "pair", line |-> l, v |-> v,
                   s |-> [i \in 1 .. Len(v) |-> unquote(v[i], call.quo)]]>>
  /\ UNCHANGED <<dvars, call>>

\* split(a, sep, quo)
SplitLine ==
  /\ call.fn = "codec" /\ ret = <<>>
  /\ \E v \in {split(call.a, call.sep, call.quo)} :
       ret' = <<[op |-> "split", v |-> v]>>
  /\ UNCHANGED <<dvars, call>>

\* unquote(a, quo)
Unquote ==
  /\ call.fn = "codec" /\ ret = <<>>
  /\ \E u \in {unquote(call.a, call.quo)} :
       ret' = <<[op |-> "unquote", s |-> u]>>
  /\ UNCHANGED <<dvars, call>>

NextCodec ==
  \/ QuoteUnquote
  \/ SplitPair
  \/ SplitLine
  \/ Unquote

SpecCodec == InitCodec /\ [][NextCodec]_vars

CodecDone(op) == call.fn = "codec" /\ ret # <<>> /\ ret[1].op = op

\* C14: for every string s and quote character q,
\* unquote(quote(s, q), q) == s, and for every s that does not contain q,
\* quote(s, q) == s.
C14_QuoteRoundTrip ==
  CodecDone("quote") =>
    /\ ret[1].back = call.a
    /\ ~HasChar(call.a, call.quo) => ret[1].quoted = call.a

\* a string of full length with two quote characters and a separator was
\* quoted to a longer string and unquoted to itself
C14_Witness ==
  /\ CodecDone("quote")
  /\ Len(call.a) = MaxStrLen
  /\ Count(call.a, call.quo) = 2
  /\ HasChar(call.a, call.sep)
  /\ Len(ret[1].quoted) = MaxStrLen + 4
  /\ ret[1].back = call.a

\* the separators of a string that quote() leaves bare: all of them when the
\* string holds no quote character, none otherwise
BareSeps(s) == IF HasChar(s, call.quo) THEN 0 ELSE Count(s, call.sep)

\* C15 as stated: for all strings a and b, separator sep and quote character
\* q, split(quote(a, q) + sep + quote(b, q), sep, q) returns exactly two
\* fields whose unquote values are a and b.
C15_AsStated ==
  CodecDone("pair") => ret[1].s = <<call.a, call.b>>

\* C15, amended: the split returns two fields whose unquote values are a and
\* b when each of a and b holds the quote character or no separator; a string
\* with separators and no quote character is written bare by quote(), and
\* each of its separators makes one more field.
C15_PairUnlessBareSeparator ==
  CodecDone("pair") =>
    /\ Len(ret[1].v) = 2 + BareSeps(call.a) + BareSeps(call.b)
    /\ (BareSeps(call.a) = 0 /\ BareSeps(call.b) = 0) =>
         ret[1].s = <<call.a, call.b>>

\* both strings hold separators and quote characters, and came back as the
\* two fields
C15_Witness ==
  /\ CodecDone("pair")
  /\ HasChar(call.a, call.sep) /\ HasChar(call.a, call.quo)
  /\ HasChar(call.b, call.sep) /\ HasChar(call.b, call.quo)
  /\ Len(call.a) = MaxStrLen
  /\ Len(ret[1].v) = 2
  /\ ret[1].s = <<call.a, call.b>>

\* the number of quote characters before position i (1-based) of s
QuotesBefore(s, i) == Cardinality({j \in 1 .. (i - 1) : s[j] = call.quo})

\* the separators of s outside a quoted region: a quote character enters or
\* leaves a region, and a doubled one inside leaves and enters again at once
OutsideSeps(s) ==
  {i \in 1 .. Len(s) : s[i] = call.sep /\ QuotesBefore(s, i) % 2 = 0}

\* C16: split(line, sep, quo) cuts the line at each sep that lies outside a
\* quoted region and nowhere else, keeps every other byte and always emits
\* the trailing field: the number of fields is 1 + the number of sep outside
\* quoted regions, no field holds a sep outside a quoted region, and joining
\* the fields with sep gives the line again.
C16_SplitExact ==
  CodecDone("split") =>
    /\ Len(ret[1].v) = 1 + Cardinality(OutsideSeps(call.a))
    /\ \A k \in 1 .. Len(ret[1].v) : OutsideSeps(ret[1].v[k]) = {}
    /\ join(ret[1].v, call.sep) = call.a

\* a line with a separator inside a quoted region and a separator at its
\* very end was cut into two fields, the second one empty
C16_Witness ==
  /\ CodecDone("split")
  /\ call.a = <<call.quo, call.sep, call.quo, call.sep>>
  /\ ret[1].v = <<<<call.quo, call.sep, call.quo>>, <<>>>>

\* the content of the quoted region of s whose first character is at pos
\* (the opening quote is at pos - 1): up to the first quote character that
\* is not doubled, each doubled one taken once
RECURSIVE RegionContent(_, _, _)
RegionContent(s, quo, pos) ==
  IF pos >= Len(s) THEN <<>>
  ELSE IF At(s, pos) # quo THEN <<At(s, pos)>> \o RegionContent(s, quo, pos + 1)
  ELSE IF pos + 1 < Len(s) /\ At(s, pos + 1) = quo
    THEN <<quo>> \o RegionContent(s, quo, pos + 2)
    ELSE <<>>

\* the position of the quote that terminates that region, Len(s) if none does
RECURSIVE RegionEnd(_, _, _)
RegionEnd(s, quo, pos) ==
  IF pos >= Len(s) THEN Len(s)
  ELSE IF At(s, pos) # quo THEN RegionEnd(s, quo, pos + 1)
  ELSE IF pos + 1 < Len(s) /\ At(s, pos + 1) = quo
    THEN RegionEnd(s, quo, pos + 2)
    ELSE pos

\* the contents of all quoted regions of s from position from on, in order
RECURSIVE RegionsContent(_, _, _)
RegionsContent(s, quo, from) ==
  IF find(s, quo, from) = npos THEN <<>>
  ELSE RegionContent(s, quo, find(s, quo, from) + 1)
       \o RegionsContent(s, quo, RegionEnd(s, quo, find(s, quo, from) + 1) + 1)

\* C17 as stated: for every s containing quo, unquote(s, quo) returns only
\* the content of the quoted region that starts at the first quo;
\* characters before the first quo and every character after the quote that
\* terminates that region are discarded.
C17_AsStated ==
  (CodecDone("unquote") /\ HasChar(call.a, call.quo)) =>
    ret[1].s = RegionContent(call.a, call.quo, find(call.a, call.quo, 0) + 1)

\* C17, amended: for every s containing quo, unquote(s, quo) returns the
\* contents of all quoted regions of s, one after the other; the characters
\* outside the regions are discarded.  A quote character after the quote that
\* terminates a region opens the next region; when none follows, the result
\* is the content of the first region alone.
C17_EveryRegion ==
  (CodecDone("unquote") /\ HasChar(call.a, call.quo)) =>
    /\ ret[1].s = RegionsContent(call.a, call.quo, 0)
    /\ find(call.a, call.quo,
            RegionEnd(call.a, call.quo, find(call.a, call.quo, 0) + 1) + 1) = npos
         => ret[1].s = RegionContent(call.a, call.quo,
                                     find(call.a, call.quo, 0) + 1)

\* a string with an empty first region, a separator between the regions and
\* an x in the second region was unquoted to the x
C17_Witness ==
  /\ CodecDone("unquote")
  /\ call.a = <<call.quo, call.quo, call.sep, call.quo, "x">>
  /\ ret[1].s = <<"x">>

\* ------------------------------------------------------------------------
\* Endpoints that already hold a smart graph attribute
\* ------------------------------------------------------------------------
\* the bytes of an endpoint field in the line read and in the line written
InBytes(side) ==
  IF call.type = "CSV" THEN At(ret[1].in, PosOf(side))
  ELSE toJson(get(ret[1].in, side))
OutBytes(side) ==
  IF call.type = "CSV" THEN At(ret[1].out, PosOf(side))
  ELSE IF side = FROM THEN ret[1].fromText ELSE ret[1].toText

\* the endpoint read holds a slash and a colon after its first slash
AlreadySmart(side) ==
  /\ InHas(side)
  /\ find(InVal(side), "/", 0) # npos
  /\ find(InVal(side), ":", find(InVal(side), "/", 0) + 1) # npos

\* C18 as stated: an endpoint that already holds a colon after its first
\* slash is written byte for byte as it was read, for every table and every
\* smart index.
C18_AsStated ==
  EdgeLineDone =>
    \A side \in Sides : AlreadySmart(side) => OutBytes(side) = InBytes(side)

\* C18: a JSONL line whose _from already holds its attribute and a quote
\* character has been transformed, and the bytes written for _from are the
\* value between bare quotes, not the escaped text that was read
C18_RawQuoteWritten ==
  /\ EdgeLineDone /\ call.type = "JSONL"
  /\ AlreadySmart(FROM)
  /\ InBytes(FROM) = <<"\"", "V", "/", "a", ":", "k", "\\", "\"", "\"">>
  /\ OutBytes(FROM) = <<"\"", "V", "/", "a", ":", "k", "\"", "\"">>

\* ------------------------------------------------------------------------
\* Endpoints without a collection name
\* ------------------------------------------------------------------------
StartsWith(s, prefix) == Len(s) >= Len(prefix) /\ SubSeq(s, 1, Len(prefix)) = prefix

\* the endpoint read is a string without a slash
NoSlash(side) == InHas(side) /\ find(InVal(side), "/", 0) = npos

\* the field written begins with the default collection and a slash, as a
\* value and in the bytes of the line (after the opening quote, if any)
DefaultCollFirst(side) ==
  /\ OutHas(side)
  /\ StartsWith(OutVal(side), Default(side) \o <<"/">>)
  /\ \/ StartsWith(OutBytes(side), Default(side) \o <<"/">>)
     \/ StartsWith(OutBytes(side), <<"\"">> \o Default(side) \o <<"/">>)
  /\ call.type = "JSONL" => Head(OutBytes(side)) = "\""

\* C19: every edge endpoint (CSV and JSONL) whose value read holds no slash
\* is written beginning with the default vertex collection of its side
\* (fromVertColl for _from, toVertColl for _to) and a slash, whether or not
\* the table has the vertex.
C19_DefaultCollFirst ==
  EdgeLineDone => \A side \in Sides : NoSlash(side) => DefaultCollFirst(side)

\* C19: a JSONL line with _from k, which the table has as V/k, and _to m,
\* which the table does not have as W/m, has been transformed
C19_Witness ==
  /\ EdgeLineDone /\ call.type = "JSONL" /\ call.smartIndex < 0
  /\ NoSlash(FROM) /\ NoSlash(TO)
  /\ InVal(FROM) = <<"k">> /\ InVal(TO) = <<"m">>
  /\ (V \o <<"/", "k">>) \in DOMAIN call.table.keyTab
  /\ (W \o <<"/", "m">>) \notin DOMAIN call.table.keyTab
  /\ OutVal(FROM) = V \o <<"/", "a", ":", "k">>
  /\ OutVal(TO) = W \o <<"/", "m">>

\* ------------------------------------------------------------------------
\* A CSV vertex line whose _key field is enclosed in quote characters
\* ------------------------------------------------------------------------
Enclosed(f) == Len(f) >= 2 /\ Head(f) = Quo /\ f[Len(f)] = Quo

InKeyField == At(ret[1].in, PosOf(KEY))
OutKeyField == At(ret[1].out, PosOf(KEY))

\* transformVertexCSV has rewritten a _key field that was read enclosed in
\* quote characters
QuotedKeyRewritten ==
  /\ VertexLineDone /\ call.type = "CSV" /\ ~ret[1].ub
  /\ PosOf(KEY) >= 0 /\ PosOf(KEY) < Len(ret[1].in)
  /\ Enclosed(InKeyField)
  /\ OutKeyField # InKeyField

\* the key written: the attribute, a colon and the key read, without the
\* prefix it had
KeyToWrite ==
  ret[1].att \o <<":">>
    \o (IF find(ret[1].key, ":", 0) = npos THEN ret[1].key
        ELSE substrFrom(ret[1].key, find(ret[1].key, ":", 0) + 1))

\* the fields read, but for those at the positions skip, are written byte
\* for byte
OtherFieldsSame(skip) ==
  \A p \in 0 .. (Len(ret[1].in) - 1) :
    p \notin skip => At(ret[1].out, p) = At(ret[1].in, p)

\* C20 as stated: in CSV vertex mode, when the _key field read is enclosed
\* in quote characters, the rewritten _key field is written enclosed in
\* quote characters as well, and all other fields of the row are written
\* byte for byte as read.
C20_AsStated ==
  QuotedKeyRewritten => Enclosed(OutKeyField) /\ OtherFieldsSame({PosOf(KEY)})

\* C20, amended: the rewritten _key field is quote() of the new key: it is
\* enclosed in quote characters, with every quote character doubled, when
\* the new key holds a quote character, and is the bare new key otherwise;
\* all other fields read are written byte for byte, but for the smart graph
\* attribute column when --smart-value is given.
C20_KeyMinimallyQuoted ==
  QuotedKeyRewritten =>
    /\ unquote(OutKeyField, Quo) = KeyToWrite
    /\ HasChar(KeyToWrite, Quo) => Enclosed(OutKeyField)
    /\ ~HasChar(KeyToWrite, Quo) => OutKeyField = KeyToWrite
    /\ OtherFieldsSame({PosOf(KEY)} \cup
                        (IF call.o.haveSmartValue THEN {PosOf(R)} ELSE {}))

\* C20: the line "k",a,x under header _key,r,n has been written as a:k,a,x
C20_Witness ==
  /\ QuotedKeyRewritten
  /\ ~call.o.haveSmartValue /\ call.o.keyValue = <<>>
  /\ ret[1].in = << <<"\"", "k", "\"">>, <<"a">>, <<"x">> >>
  /\ ret[1].out = << <<"a", ":", "k">>, <<"a">>, <<"x">> >>

\* ------------------------------------------------------------------------
\* The form of a JSONL vertex line
\* ------------------------------------------------------------------------
\* "name":<json>
fieldText(name, val) == <<"\"">> \o name \o <<"\"", ":">> \o toJson(val)

\* { fields separated by commas }
objectText(rec) ==
  <<"{">> \o join([i \in 1 .. Len(rec) |-> fieldText(rec[i].name, rec[i].val)], ",")
    \o <<"}">>

\* the fields of the line of the record read: _key with the new key when
\* withKey, the attribute, the other members in input order
VertexFields(withKey) ==
  (IF withKey THEN <<Member(KEY, StrVal(ret[1].newKey))>> ELSE <<>>)
    \o <<Member(call.o.smartAttr, StrVal(ret[1].att))>>
    \o otherMembers(ret[1].in, {KEY, call.o.smartAttr})

VertexJSONLDone == VertexLineDone /\ call.type = "JSONL"

\* C21 as stated: every line written by the JSONL vertex transform is
\* { fields }, each field "name":<json> with the name between double quotes,
\* fields separated by commas: _key first (when write-key is on or the
\* record had a string key), then the attribute, then every other field read
\* in input order; also when _key is not written.
C21_AsStated ==
  VertexJSONLDone =>
    ret[1].text = objectText(VertexFields(call.o.writeKey \/ ret[1].hasKey))

\* C21: a record without _key has been transformed with --write-key false,
\* and the line written begins {r":
C21_AttributeNameUnquoted ==
  /\ VertexJSONLDone /\ ~call.o.writeKey /\ ~ret[1].keyWritten
  /\ get(ret[1].in, KEY) = None
  /\ ret[1].text = <<"{", "r", "\"", ":", "\"", "a", "\"", ",", "\"", "n", "\"", ":",
                      "\"", "x", "\"", "}">>

\* ------------------------------------------------------------------------
\* Log lines of the workers.  A log statement is the source line of its
\* first << and whether a lock_guard of the shared mutex is in scope there.
\* ------------------------------------------------------------------------
LogStmt(line, locked) == [line |-> line, locked |-> locked]

\* findColPos: a header that is not found is reported, by the caller's thread
findColPosLog(colHeaders, header) ==
  IF findColPos(colHeaders, header) < 0 THEN <<LogStmt(257, FALSE)>> ELSE <<>>

\* transformEdgesCSV after the header line has been read
logsAfterHeaderCSV(h, closeGood) ==
  (IF h.ncols = 1 THEN <<LogStmt(721, TRUE)>> ELSE <<>>)
    \o findColPosLog(h.colHeaders, KEY)
    \o findColPosLog(h.colHeaders, FROM)
    \o findColPosLog(h.colHeaders, TO)
    \o (IF h.fromPos < 0 \/ h.toPos < 0 THEN <<LogStmt(755, TRUE)>>
        ELSE <<LogStmt(839, TRUE)>>
               \o (IF closeGood THEN <<>> ELSE <<LogStmt(847, FALSE)>>))

\* the log statements transformEdgesCSV executes on a file, in order (files
\* of fewer than 1000000 lines)
logsEdgesCSV(file, e, sep, quo, closeGood) ==
  <<LogStmt(703, TRUE)>>
    \o (IF ~file.ok \/ Len(file.lines) = 0 THEN <<LogStmt(713, TRUE)>>
        ELSE logsAfterHeaderCSV(edgeHeaderCSV(Head(file.lines), e, sep, quo),
                                closeGood))

\* the line loop of transformEdgesJSONL: translate reports an endpoint that
\* is no string; a line that is no JSON ends the thread
RECURSIVE logsLinesJSONL(_)
logsLinesJSONL(lines) ==
  IF Len(lines) = 0 THEN [end |-> "ok", logs |-> <<>>]
  ELSE IF ~parses(Head(lines)) THEN [end |-> "throw", logs |-> <<>>]
  ELSE [end |-> logsLinesJSONL(Tail(lines)).end,
        logs |-> (IF isString(get(Head(lines), FROM)) THEN <<>>
                  ELSE <<LogStmt(882, TRUE)>>)
                 \o (IF isString(get(Head(lines), TO)) THEN <<>>
                     ELSE <<LogStmt(882, TRUE)>>)
                 \o logsLinesJSONL(Tail(lines)).logs]

logsAfterLinesJSONL(r, closeGood) ==
  r.logs \o (IF r.end # "ok" THEN <<>>
             ELSE <<LogStmt(995, TRUE)>>
                    \o (IF closeGood THEN <<>> ELSE <<LogStmt(1004, TRUE)>>))

\* the log statements transformEdgesJSONL executes on a file, in order
logsEdgesJSONL(file, closeGood) ==
  <<LogStmt(861, TRUE)>>
    \o logsAfterLinesJSONL(logsLinesJSONL(IF file.ok THEN file.lines ELSE <<>>),
                           closeGood)

logsEdges(type, file, e, closeGood) ==
  IF type = "CSV" THEN logsEdgesCSV(file, e, Sep, Quo, closeGood)
  ELSE logsEdgesJSONL(file, closeGood)

\* the edge files of the log harness: with and without _key, with _from
\* only, without a line, and one that cannot be opened; JSONL rows with an
\* endpoint that is no string
LogFiles(type) ==
  { edgeFile(type, EdgeRowsKM),
    recordsFile(type, <<FROM, TO>>, << <<StrVal(<<"k">>), Five>> >>),
    recordsFile(type, <<FROM>>, << <<StrVal(<<"k">>)>> >>),
    [ok |-> TRUE, lines |-> <<>>],
    [ok |-> FALSE, lines |-> <<>>] }

LogWorkers == {1, 2}

\* Two workers of a pass, each holding the descriptor it popped: ret[1] is
\* the owner of the mutex (0: none), the log statements each worker has
\* still to execute, and whether it is in the middle of one (between its
\* first << and its std::endl).
InitLog ==
  /\ DriverIdle
  /\ trans = clear
  /\ \E ty \in {"CSV", "JSONL"} :
       \E f1 \in LogFiles(ty), f2 \in LogFiles(ty), g1 \in BOOLEAN, g2 \in BOOLEAN :
         /\ call = [fn |-> "log", type |-> ty, files |-> <<f1, f2>>,
                    closeGood |-> <<g1, g2>>]
         /\ ret = <<[mutex |-> 0,
                     todo |-> <<logsEdges(ty, f1, EdgeVW, g1),
                                logsEdges(ty, f2, EdgeVW, g2)>>,
                     writing |-> <<FALSE, FALSE>>]>>

\* std::lock_guard<std::mutex> guard(mutex)
LogLock(w) ==
  /\ call.fn = "log"
  /\ Len(ret[1].todo[w]) > 0 /\ Head(ret[1].todo[w]).locked
  /\ ~ret[1].writing[w]
  /\ ret[1].mutex = 0
  /\ ret' = <<[ret[1] EXCEPT !.mutex = w]>>
  /\ UNCHANGED <<dvars, call>>

\* the first << of a log statement
LogWrite(w) ==
  /\ call.fn = "log"
  /\ Len(ret[1].todo[w]) > 0
  /\ ~ret[1].writing[w]
  /\ Head(ret[1].todo[w]).locked => ret[1].mutex = w
  /\ ret' = <<[ret[1] EXCEPT !.writing[w] = TRUE]>>
  /\ UNCHANGED <<dvars, call>>

\* its std::endl, and the end of the guard's scope
LogEndl(w) ==
  /\ call.fn = "log"
  /\ ret[1].writing[w]
  /\ ret' = <<[ret[1] EXCEPT !.writing[w] = FALSE,
                             !.todo[w] = Tail(ret[1].todo[w]),
                             !.mutex = IF Head(ret[1].todo[w]).locked THEN 0
                                       ELSE ret[1].mutex]>>
  /\ UNCHANGED <<dvars, call>>

NextLog ==
  \/ \E w \in LogWorkers : LogLock(w)
  \/ \E w \in LogWorkers : LogWrite(w)
  \/ \E w \in LogWorkers : LogEndl(w)

SpecLog == InitLog /\ [][NextLog]_vars

LogWriting(w) == call.fn = "log" /\ ret[1].writing[w]

\* C22 as stated: during the worker phase, every write of a log line made
\* by a worker (in transformEdgesCSV, transformEdgesJSONL and the helpers
\* they call) happens while that worker holds the shared mutex, so no two
\* workers are in the middle of a log line at the same time.
C22_AsStated ==
  /\ \A w \in LogWorkers : LogWriting(w) => ret[1].mutex = w
  /\ ~(LogWriting(1) /\ LogWriting(2))

\* C22: a worker is in the middle of the line findColPos writes for a CSV
\* file without _key, without holding the mutex, while the other worker is in
\* the middle of a log line of its own
C22_LinesInterleaved ==
  /\ LogWriting(1) /\ LogWriting(2)
  /\ call.type = "CSV"
  /\ Head(ret[1].todo[1]).line = 257
  /\ ret[1].mutex # 1

\* ------------------------------------------------------------------------
\* Termination of edge mode.  The driver and every worker thread that can
\* take a step eventually take one.
\* ------------------------------------------------------------------------
IsWorker(w) == w \in Workers

\* the main thread: weak fairness of each of its steps.  DoReadMore is
\* enabled exactly when pc = "readMore" and always changes pc, so its weak
\* fairness is written with that condition in place of ENABLED.
DriverFair ==
  /\ WF_vars(Start)
  /\ WF_vars(Join)
  /\ []<>(pc # "readMore") \/ []<><<DoReadMore>>_vars

\* a worker thread: weak fairness of each of its steps.  WorkerTransform(w)
\* is enabled exactly when the worker holds a descriptor and always changes
\* wpc.
WorkerFair(w) ==
  /\ WF_vars(IsWorker(w) /\ WorkerPop(w))
  /\ WF_vars(IsWorker(w) /\ WorkerExit(w))
  /\ \/ []<>~(IsWorker(w) /\ pc = "join" /\ wpc[w] = "work")
     \/ []<><<IsWorker(w) /\ WorkerTransform(w)>>_vars

SpecTermination ==
  Init /\ [][Next]_vars /\ DriverFair /\ \A w \in 1 .. MaxThreads : WorkerFair(w)

\* doEdges has returned, or the process has ended in an exception or in
\* undefined behaviour
EdgesEnded == pc \in {"done", "throw", "ub"}

\* C23 as stated: edge mode terminates for every memory limit (--memory 0
\* included), every thread count and every list of vertex files (one that
\* cannot be opened or whose CSV header lacks _key included).
C23_AsStated == <>EdgesEnded

\* the next readMore call leaves the vertex buffer as it is, at a file that
\* is still to be read
ReadMoreStuck ==
  /\ ~isDone(vb, vfiles)
  /\ readMore(vb, vfiles, memLimit, opt.type, opt.sep, opt.quo).end = "ok"
  /\ readMore(vb, vfiles, memLimit, opt.type, opt.sep, opt.quo).vb = vb

\* C23: two passes have been joined without error and the next one is about
\* to call readMore, which will leave the vertex buffer where it is: the
\* current vertex file cannot be opened, with a memory limit above 0
C23_PassWithoutProgress ==
  /\ pc = "readMore" /\ pass >= 2
  /\ ReadMoreStuck
  /\ opt.memory > 0 /\ ~vfiles[vb.filePos + 1].ok

\* ------------------------------------------------------------------------
\* The worker pool of a pass
\* ------------------------------------------------------------------------
\* --threads is given to strtoul: 0 is a thread count like any other
InitPool == InitEdgesThreads(0 .. MaxThreads)

SpecPool == InitPool /\ [][Next]_vars

\* threads[i].join() has returned for every worker of the pass
AllJoined == pc = "join" /\ \A w \in Workers : wpc[w] = "exit"

\* number of positions of seq that hold x
Occurrences(seq, x) == Cardinality({i \in 1 .. Len(seq) : seq[i] = x})

\* the descriptors the transform was run on in this pass, in order
DoneJobs == [j \in 1 .. Len(done) |-> done[j].e]

\* the edge transform was run once on every descriptor of --edges
EachTransformedOnce ==
  /\ Len(done) = Len(edges)
  /\ \A i \in 1 .. Len(edges) :
       Occurrences(DoneJobs, edges[i]) = Occurrences(edges, edges[i])

\* C24 as stated: on every outer pass, for every configured --threads
\* value, when all workers have been joined the work queue is empty and
\* every --edges descriptor has been popped and run through the edge
\* transform exactly once in that pass.
C24_AsStated == AllJoined => (queue = <<>> /\ EachTransformedOnce)

\* C24, amended: the same for every --threads value of at least 1; with
\* --threads 0 no worker is started and the queue is left as it was filled.
C24_PoolDrainsQueue ==
  (AllJoined /\ opt.nrThreads >= 1) => (queue = <<>> /\ EachTransformedOnce)

\* the two workers of a second pass have been joined after running the
\* transform on three descriptors, not in the order of --edges
C24_Witness ==
  /\ AllJoined /\ opt.nrThreads = 2 /\ pass >= 1
  /\ Len(edges) = 3 /\ queue = <<>>
  /\ EachTransformedOnce
  /\ DoneJobs # edges

\* ------------------------------------------------------------------------
\* Edge mode on a disk where closing an output file may fail
\* ------------------------------------------------------------------------
NextFaults ==
  \/ Start
  \/ DoReadMore
  \/ \E w \in Workers : WorkerPop(w)
  \/ \E w \in Workers : WorkerExit(w)
  \/ \E w \in Workers : \E closeGood \in BOOLEAN : WorkerTransformWith(w, closeGood)
  \/ Join

\* the --edges lists of the runs, and one whose first descriptor renames
\* the column _to (1.csv:V:V:2:t), so that the file has no _to column
FaultEdgeSets ==
  RunEdgeSets \cup
    { [d |-> << <<1, V, V, << <<2, <<"t">> >> >> >>, <<2, V, V, <<>> >> >>,
       f |-> << <<TRUE, EdgeRowsKM>>, <<TRUE, EdgeRowsMK>> >>] }

InitFaults == InitEdgesWith(1 .. MaxThreads, FaultEdgeSets)

SpecFaults == InitFaults /\ [][NextFaults]_vars

\* an edge transform of this pass has returned non-zero
TransformFailed == \E j \in 1 .. Len(done) : done[j].rc # 0

\* doEdges is past the join of a pass
PassJoined == pc \in {"readMore", "done"} /\ pass >= 1

\* C25: if the edge transform of any edge file returns non-zero during a
\* pass, the other workers keep running and every remaining queued edge
\* file of that pass is still processed; after all workers are joined
\* doEdges returns a non-zero code.
C25_ErrorAfterJoin ==
  /\ (AllJoined /\ TransformFailed) => (queue = <<>> /\ EachTransformedOnce)
  /\ (PassJoined /\ TransformFailed) => (pc = "done" /\ rc # 0)

\* doEdges has returned non-zero from a pass with two workers in which the
\* first transform run failed and the transform was run on the other
\* descriptor all the same
C25_Witness ==
  /\ pc = "done" /\ rc # 0 /\ pass >= 1
  /\ opt.nrThreads = 2
  /\ Len(done) >= 2 /\ done[1].rc # 0 /\ done[2].rc = 0
  /\ EachTransformedOnce

\* ------------------------------------------------------------------------
\* Replacement of an edge file by its .out file
\* ------------------------------------------------------------------------
\* a step in which a worker's edge transform has run, and what it ran on
TransformStep == Len(done') = Len(done) + 1
LastDone == done'[Len(done')]

\* the step has put a file of as many rows in the place of the file of its
\* descriptor and has left every other file alone
WholeFileReplaced ==
  /\ fs'[LastDone.e.fileName].ok
  /\ NumRows(fs'[LastDone.e.fileName])
       = (IF fs[LastDone.e.fileName].ok THEN NumRows(fs[LastDone.e.fileName]) ELSE 0)
  /\ \A n \in 1 .. Len(fs) : n # LastDone.e.fileName => fs'[n] = fs[n]

\* C26: an edge file is replaced by its .out file only after the whole file
\* was transformed and the output stream closed in good state; whenever the
\* edge transform of a file returns non-zero (unreadable header, missing
\* _from or _to column, close error), the file is left as it was.
C26_ReplacedOnlyOnSuccess ==
  [][TransformStep =>
       /\ (LastDone.rc # 0 \/ ~LastDone.closed) => fs' = fs
       /\ fs' # fs => (LastDone.rc = 0 /\ LastDone.closed /\ WholeFileReplaced)]_vars

\* in the first pass a transform whose close() failed has left its file as
\* it was when the run started, and the transform of another file has
\* replaced that one
C26_Witness ==
  /\ pc = "join" /\ pass = 0
  /\ \E j, k \in 1 .. Len(done) :
       /\ done[j].e.fileName # done[k].e.fileName
       /\ done[j].rc # 0 /\ ~done[j].closed
       /\ fs0[done[j].e.fileName].ok /\ NumRows(fs0[done[j].e.fileName]) > 0
       /\ fs[done[j].e.fileName] = fs0[done[j].e.fileName]
       /\ done[k].rc = 0 /\ done[k].closed
       /\ fs[done[k].e.fileName] # fs0[done[k].e.fileName]

\* ------------------------------------------------------------------------
\* C27: the translation table is written by readMore only
\* ------------------------------------------------------------------------
\* a worker thread exists: it is in its loop, or the pass that created it
\* has not yet joined it
WorkerThreadExists(w) == w \in Workers /\ (wpc[w] # "exit" \/ pc = "join")

NoWorkerThread == \A w \in 1 .. MaxThreads : ~WorkerThreadExists(w)

\* a step of readMore: the call of line 1230, which leaves its result
ReadMoreStep == pc = "readMore" /\ read'.lines = readMore(vb, vfiles, memLimit, opt.type, opt.sep, opt.quo).read

\* C27: keyTab, attTab, smartAttributes and memUsage change only in a step
\* of VertexBuffer.readMore, taken while no worker thread exists; from the
\* start of the workers of a pass to their join every step leaves the four
\* of them as they are.
C27_TableWrittenByReadMoreOnly ==
  [][/\ trans' # trans => (ReadMoreStep /\ NoWorkerThread)
     /\ (\E w \in 1 .. MaxThreads : WorkerThreadExists(w)) =>
          /\ trans'.keyTab = trans.keyTab
          /\ trans'.attTab = trans.attTab
          /\ trans'.smartAttributes = trans.smartAttributes
          /\ trans'.memUsage = trans.memUsage]_vars

\* the second pass is at its join: readMore has replaced the table of the
\* first pass by another one, and the workers of both passes have
\* transformed files by looking keys up in it
C27_Witness ==
  /\ pc = "join"
  /\ pass >= 1
  /\ \A w \in Workers : wpc[w] = "exit"
  /\ Len(done) > 0
  /\ \E j \in 1 .. Len(done) : done[j].rc = 0 /\ fs[done[j].e.fileName] # fs0[done[j].e.fileName]
  /\ trans.memUsage > 0
  /\ Len(trans.smartAttributes) > 0

\* ------------------------------------------------------------------------
\* C28: the result does not depend on the batches
\* ------------------------------------------------------------------------
\* readMore with a memory limit that no table of the vertex files reaches:
\* one batch with all vertices
wholeTable == readMore(VertexBufferInit, vfiles, 100 * MemUnit, opt.type, opt.sep, opt.quo)

\* edge file n after the one pass of a run with that table
singlePass(n) ==
  IF opt.type = "CSV"
    THEN transformEdgesCSV(fs0[n], wholeTable.trans, edges[n], opt.sep, opt.quo, opt.smartIndex)
    ELSE transformEdgesJSONL(fs0[n], wholeTable.trans, edges[n], opt.smartIndex)

singlePassFile(n) == IF singlePass(n).renamed THEN [ok |-> TRUE, lines |-> singlePass(n).out] ELSE fs0[n]

EdgesCompleted == pc = "done" /\ rc = 0 /\ opt.smartIndex <= 0 /\ opt.memory > 0

AllSepFree(n) == \A i \in 1 .. NumRows(fs0[n]) : SepFree(n, i)

\* C28 as stated: when edge mode without smart-index has completed, with
\* whatever memory limit above 0, every edge file is what a single pass with
\* all vertices in one table makes of it.
C28_AsStated ==
  EdgesCompleted =>
    /\ isDone(wholeTable.vb, vfiles)
    /\ \A n \in 1 .. Len(edges) : fs[n] = singlePassFile(n)

\* JSONL, one vertex per batch: edge mode has completed after two or more
\* passes and an edge whose single-pass line has the rewritten _key has no
\* _key member at all, its endpoints being the same in both
C28_KeyLostBetweenBatches ==
  /\ EdgesCompleted
  /\ opt.type = "JSONL"
  /\ pass >= 2
  /\ isDone(wholeTable.vb, vfiles)
  /\ \E n \in 1 .. Len(edges) : \E i \in 1 .. NumRows(fs0[n]) :
       /\ Len(fs[n].lines) = Len(singlePassFile(n).lines)
       /\ isString(get(singlePassFile(n).lines[i], KEY))
       /\ get(fs[n].lines[i], KEY) = None
       /\ \A side \in Sides : get(fs[n].lines[i], side) = get(singlePassFile(n).lines[i], side)

\* ------------------------------------------------------------------------
\* C29: endpoints under --smart-index
\* ------------------------------------------------------------------------
\* endpoints with keys shorter than, as long as and longer than the index,
\* without a collection, already smart, with a quote character, without key
SmartEndVals ==
  { StrVal(x) : x \in { <<"k">>, <<"V", "/", "k">>, <<"V", "/", "k", "m">>,
                        <<"V", "/", "k", "m", "n">>, <<"V", "/", "a", ":", "k">>,
                        <<"V", "/", "k", "\"">>, <<"V", "/">> } }

\* the arguments of an edge line harness with --smart-index 1, 2 or 3
IsSmartIndexCall(c) ==
  \E ty \in {"CSV", "JSONL"}, si \in {1, 2, 3}, tb \in Tables,
     k \in {None, StrVal(<<"e">>), StrVal(<<"p", ":", "q">>)},
     f \in SmartEndVals, t \in SmartEndVals :
    c = [fn |-> "edgeLine", type |-> ty, smartIndex |-> si, table |-> tb,
         e |-> EdgeVW, header |-> csvLine(edgeNames(k)),
         line |-> recordLine(ty, edgeNames(k), edgeRow(k, f, t))]

InitSmartIndex ==
  /\ DriverIdle
  /\ trans = clear
  /\ IsSmartIndexCall(call)
  /\ ret = <<>>

NextSmartIndex ==
  \/ EdgeLineCSV
  \/ EdgeLineJSONL

SpecSmartIndex == InitSmartIndex /\ [][NextSmartIndex]_vars

\* the endpoint read is coll/key (the default collection prepended when it
\* has no slash), key without a colon
PlainKey(side) == InHas(side) /\ find(AfterSlash(Endpoint(side)), ":", 0) = npos

\* the first smartIndex bytes of the key, the whole key when it is shorter
IndexAtt(side) ==
  IF Len(AfterSlash(Endpoint(side))) <= call.smartIndex THEN AfterSlash(Endpoint(side))
  ELSE SubSeq(AfterSlash(Endpoint(side)), 1, call.smartIndex)

\* coll/att:key
IndexEndpoint(side) ==
  SubSeq(Endpoint(side), 1, find(Endpoint(side), "/", 0) + 1)
    \o IndexAtt(side) \o <<":">> \o AfterSlash(Endpoint(side))

\* the attribute translate returned for the side
AttReturned(side) == IF side = FROM THEN ret[1].fromAttr ELSE ret[1].toAttr

\* the field written for the side reads as v: the CSV field unquotes to v,
\* the JSONL field is the JSON string of v
WrittenAs(side, v) ==
  /\ OutHas(side)
  /\ OutVal(side) = v
  /\ call.type = "JSONL" => OutBytes(side) = toJson(StrVal(v))

\* C29 as stated: with smart-index n > 0, every edge endpoint coll/key (CSV
\* and JSONL) whose key holds no colon is written as coll/att:key, att being
\* the first n bytes of key (the whole key when it is shorter), and att is
\* the attribute returned for the rewrite of the edge _key.
C29_AsStated ==
  (EdgeLineDone /\ call.smartIndex > 0) =>
    \A side \in Sides :
      PlainKey(side) =>
        /\ WrittenAs(side, IndexEndpoint(side))
        /\ AttReturned(side) = IndexAtt(side)

\* C29: a JSONL line with _from V/k" has been transformed with smart-index
\* 2: the attribute is k", and the bytes written for _from hold the two
\* quote characters of the new value unescaped
C29_QuoteInEndpointRaw ==
  /\ EdgeLineDone /\ call.type = "JSONL" /\ call.smartIndex = 2
  /\ PlainKey(FROM)
  /\ InVal(FROM) = <<"V", "/", "k", "\"">>
  /\ AttReturned(FROM) = <<"k", "\"">>
  /\ OutBytes(FROM) = <<"\"", "V", "/", "k", "\"", ":", "k", "\"", "\"">>
  /\ toJson(StrVal(IndexEndpoint(FROM)))
       = <<"\"", "V", "/", "k", "\\", "\"", ":", "k", "\\", "\"", "\"">>

\* ------------------------------------------------------------------------
\* C30: the width of a CSV vertex row
\* ------------------------------------------------------------------------
ValY == <<"y">>

\* the row without its last field (d < 0), as it is (d = 0), or with one
\* more field y (d > 0)
rowOfWidth(row, d) ==
  IF d < 0 THEN SubSeq(row, 1, Len(row) - 1)
  ELSE IF d > 0 THEN Append(row, StrVal(ValY))
  ELSE row

\* the arguments of a CSV vertex line harness whose row has fewer, as many
\* or more fields than the header; the header n,n has neither the attribute
\* nor _key
IsRowWidthCall(c) ==
  \E o \in VertexOptions, nm \in VertexNames \cup {<<NameN, NameN>>},
     k \in {StrVal(<<"k">>), StrVal(<<"a", ":", "k">>)},
     r \in {StrVal(<<"a">>), StrVal(<<>>)}, d \in {0 - 1, 0, 1} :
    c = [fn |-> "vertexLine", type |-> "CSV", o |-> o, header |-> csvLine(nm),
         line |-> recordLine("CSV", nm, rowOfWidth(vertexRow(nm, k, r, StrVal(ValX)), d))]

InitRowWidth ==
  /\ DriverIdle
  /\ trans = clear
  /\ IsRowWidthCall(call)
  /\ ret = <<>>

NextRowWidth == VertexLineCSV

SpecRowWidth == InitRowWidth /\ [][NextRowWidth]_vars

\* transformVertexCSV has written a row without reading parts[-1]
VertexCSVDone == VertexLineDone /\ call.type = "CSV" /\ ~ret[1].ub

\* the number of columns of the header read
InCols == Len(split(call.header, Sep, Quo))

\* the _key the row must have: unchanged when the key read has the
\* attribute as its prefix, else the attribute, a colon and the key read
\* without its prefix
KeyInPlace ==
  PosOf(KEY) >= 0 =>
    /\ PosOf(KEY) < Len(ret[1].out)
    /\ unquote(At(ret[1].out, PosOf(KEY)), Quo) =
         (IF /\ find(ret[1].key, ":", 0) # npos
             /\ substr(ret[1].key, 0, find(ret[1].key, ":", 0)) = ret[1].att
            THEN unquote(At(padTo(ret[1].in, Len(ret[1].colHeaders)), PosOf(KEY)), Quo)
            ELSE KeyToWrite)

AttInPlace ==
  /\ PosOf(R) >= 0 /\ PosOf(R) < Len(ret[1].out)
  /\ unquote(At(ret[1].out, PosOf(R)), Quo) = ret[1].att

\* C30 as stated: in CSV vertex mode every row written has exactly as many
\* fields as the header written (an appended attribute column and an
\* appended _key column included), whether the row read has fewer, as many
\* or more fields than the header read, and the attribute and the _key are
\* written at the positions of their header columns.
C30_AsStated ==
  VertexCSVDone =>
    /\ Len(ret[1].out) = Len(ret[1].colHeaders)
    /\ AttInPlace
    /\ KeyInPlace

\* C30: the row k,x,y under the header _key,n has been transformed with
\* --smart-value n: the header written is _key,n,r and the row written is
\* x:k,x,x and an empty field: four fields, the field y overwritten by the
\* attribute
C30_RowWiderThanHeader ==
  /\ VertexCSVDone
  /\ call.o.haveSmartValue /\ call.o.smartValue = NameN /\ call.o.smartIndex < 0
  /\ ret[1].colHeaders = <<KEY, NameN, R>>
  /\ ret[1].in = << <<"k">>, ValX, ValY >>
  /\ ret[1].out = << <<"x", ":", "k">>, ValX, ValX, <<>> >>
  /\ Len(ret[1].in) > InCols
  /\ Len(ret[1].out) > Len(ret[1].colHeaders)

====
